---- MODULE Spec2Model ----
(***************************************************************************)
(* Big Dipper: the buy-the-dip trading controller of src/main.py, with    *)
(* the pure decision functions of src/dip_logic.py, the helpers of        *)
(* src/utils.py and the configuration of src/config.py.                   *)
(*                                                                         *)
(* Money, prices and percentages are exact rationals <<n, d>> (the code   *)
(* uses binary floats; rounding error is not modelled).  Time is in       *)
(* seconds; datetime.now() and time.time() are one clock, `now'.          *)
(***************************************************************************)
EXTENDS Integers, Sequences, FiniteSets, TLC

\* ------------------------------------------------------------------ bounds
\* Iterations of run()'s loop explored.
MaxCycles == 2
\* Orders the brokerage accepts in one run.
MaxOrders == 2
\* Iterations of run()'s loop explored when the later ones all raise
MaxFailures == 6
\* Epoch seconds at process start.  Any value >= COOLDOWN_HOURS * 3600
\* behaves alike (the real clock reads about 1.7e9).
ProcessStart == 20000

\* ------------------------------------------------------- exact arithmetic
Abs(x) == IF x < 0 THEN -x ELSE x

RECURSIVE GCD(_, _)
GCD(a, b) == IF b = 0 THEN a ELSE GCD(b, a % b)

\* The rational n/d in lowest terms with a positive denominator.
Frac(n, d) ==
    LET s == IF d < 0 THEN -1 ELSE 1
        g == GCD(Abs(n), Abs(d))
    IN  <<(s * n) \div g, (s * d) \div g>>

FromInt(i) == <<i, 1>>
Zero == <<0, 1>>
FAdd(a, b) == Frac(a[1] * b[2] + b[1] * a[2], a[2] * b[2])
FSub(a, b) == Frac(a[1] * b[2] - b[1] * a[2], a[2] * b[2])
\* Cross-reduce before multiplying so that intermediate products stay small.
FMul(a, b) ==
    LET x == Frac(a[1], b[2])
        y == Frac(b[1], a[2])
    IN  Frac(x[1] * y[1], x[2] * y[2])
FDiv(a, b) == FMul(a, Frac(b[2], b[1]))
FLt(a, b) == a[1] * b[2] < b[1] * a[2]
FLe(a, b) == a[1] * b[2] <= b[1] * a[2]
FGt(a, b) == FLt(b, a)
FGe(a, b) == FLe(b, a)
FMin(a, b) == IF FLe(a, b) THEN a ELSE b
FMax(a, b) == IF FLe(a, b) THEN b ELSE a
FAbs(a) == <<Abs(a[1]), a[2]>>

\* Python's None for a missing dip, bar list, quote or opportunity.
None == <<>>
\* A price that is absent: get_current_price returns None and its caller
\* tests `not current_price', which 0.0 fails too.
NoPrice == 0
\* last_trade_times.get(symbol) when the symbol has no entry.
NoTime == -1

\* ----------------------------------------------------------- configuration
\* The watchlist: three of config.SYMBOLS in the order config lists them (a
\* 5% threshold, a 3% threshold below the absolute floor, a volatility-flagged
\* 8% threshold) and one collateral symbol, the case scan_symbol's first check
\* exists for.
SYMBOLS == <<"NVDA", "MSFT", "IBIT", "SGOV">>
COLLATERAL_POSITIONS == {"BLV", "SGOV", "BIL"}
VOLATILE_TICKERS == {"IBIT", "ARKK", "KTOS", "FIGR", "URNM", "MP"}

get_dip_threshold(symbol) ==
    CASE symbol = "MSFT" -> Frac(3, 100)
      [] symbol = "NVDA" -> Frac(5, 100)
      [] symbol = "IBIT" -> Frac(8, 100)
      [] OTHER -> Frac(4, 100)

LOOKBACK_DAYS == 20
BASE_POSITION_PCT == Frac(25, 1000)
MAX_POSITION_PCT == Frac(15, 100)
DIP_MULTIPLIER == Frac(175, 100)
MIN_ABSOLUTE_DIP == Frac(5, 100)
MAX_MARGIN_PCT == Frac(20, 100)
MARGIN_SAFETY_THRESHOLD == Frac(15, 100)
COOLDOWN_HOURS == 3
ORDER_TIMEOUT_MINUTES == 15
LIMIT_OFFSET_PCT == Frac(5, 1000)
INTRADAY_DROP_THRESHOLD == Frac(6, 100)
INTRADAY_MULTIPLIER == Frac(15, 10)
SCAN_INTERVAL_SEC == 60

\* ---------------------------------------------------------- pure functions
RECURSIVE MaxClose(_, _, _)
\* max(bar['close'] for bar in bars[lo..hi])
MaxClose(bars, lo, hi) ==
    IF lo = hi THEN bars[lo].close
    ELSE LET mid == (lo + hi) \div 2
             l == MaxClose(bars, lo, mid)
             r == MaxClose(bars, mid + 1, hi)
         IN  IF l > r THEN l ELSE r

\* Fault injection for C22: calculate_dip taking the high over every bar
\* supplied and letting a price at the high through as a dip of zero.
calculate_dip_all_bars(current_price, bars, lookback_days) ==
    IF bars = None \/ Len(bars) < lookback_days THEN None
    ELSE LET recent_high == MaxClose(bars, 1, Len(bars))
         IN  IF recent_high <= 0 THEN None
             ELSE LET dip_pct == Frac(current_price - recent_high, recent_high)
                  IN  IF FLe(dip_pct, Zero) THEN dip_pct ELSE None

calculate_dip(current_price, bars, lookback_days) ==
    IF bars = None \/ Len(bars) < lookback_days THEN None
    ELSE LET recent_high == MaxClose(bars, Len(bars) - lookback_days + 1, Len(bars))
         IN  IF recent_high <= 0 THEN None
             ELSE LET dip_pct == Frac(current_price - recent_high, recent_high)
                  IN  IF FLt(dip_pct, Zero) THEN dip_pct ELSE None

\* The effective cooldown of should_buy's check 4, in hours.
effective_cooldown(dip_pct, cooldown_hours) ==
    IF FGt(FAbs(dip_pct), Frac(7, 100))
    THEN (IF cooldown_hours \div 2 > 1 THEN cooldown_hours \div 2 ELSE 1)
    ELSE cooldown_hours

\* Fault injection for C19: should_buy without its absolute-floor check.
should_buy_no_floor(symbol, dip_pct, min_dip, position_value, max_position, last_trade_time, cooldown_hours, min_absolute_dip, t) ==
    IF FLt(FAbs(dip_pct), min_dip)
    THEN [ok |-> FALSE, reason |-> "threshold"]
    ELSE IF FGe(position_value, max_position)
    THEN [ok |-> FALSE, reason |-> "position_max"]
    ELSE IF /\ last_trade_time # NoTime
            /\ t - last_trade_time < effective_cooldown(dip_pct, cooldown_hours) * 3600
    THEN [ok |-> FALSE, reason |-> "cooldown"]
    ELSE [ok |-> TRUE, reason |-> "OK"]

\* Fault injection for C20: should_buy checking the cooldown before the
\* position cap.
should_buy_cooldown_first(symbol, dip_pct, min_dip, position_value, max_position, last_trade_time, cooldown_hours, min_absolute_dip, t) ==
    IF FLt(FAbs(dip_pct), min_absolute_dip)
    THEN [ok |-> FALSE, reason |-> "absolute_min"]
    ELSE IF FLt(FAbs(dip_pct), min_dip)
    THEN [ok |-> FALSE, reason |-> "threshold"]
    ELSE IF /\ last_trade_time # NoTime
            /\ t - last_trade_time < effective_cooldown(dip_pct, cooldown_hours) * 3600
    THEN [ok |-> FALSE, reason |-> "cooldown"]
    ELSE IF FGe(position_value, max_position)
    THEN [ok |-> FALSE, reason |-> "position_max"]
    ELSE [ok |-> TRUE, reason |-> "OK"]

\* The trailing parameter t is datetime.now().
should_buy(symbol, dip_pct, min_dip, position_value, max_position, last_trade_time, cooldown_hours, min_absolute_dip, t) ==
    IF FLt(FAbs(dip_pct), min_absolute_dip)
    THEN [ok |-> FALSE, reason |-> "absolute_min"]
    ELSE IF FLt(FAbs(dip_pct), min_dip)
    THEN [ok |-> FALSE, reason |-> "threshold"]
    ELSE IF FGe(position_value, max_position)
    THEN [ok |-> FALSE, reason |-> "position_max"]
    ELSE IF /\ last_trade_time # NoTime
            /\ t - last_trade_time < effective_cooldown(dip_pct, cooldown_hours) * 3600
    THEN [ok |-> FALSE, reason |-> "cooldown"]
    ELSE [ok |-> TRUE, reason |-> "OK"]

\* Fault injection for C23: sizing that scales with 3% / |dip| rather than
\* |dip| / 3%.
calculate_shares_inverse_ratio(dip_pct, current_price, equity, current_position_value, base_pct, max_pct, dip_multiplier, volatility_factor) ==
    LET dip_ratio == FDiv(Frac(3, 100), FAbs(dip_pct))
        size_multiplier == FMul(dip_ratio, dip_multiplier)
        safe_vol_factor ==
            IF FGt(volatility_factor, Zero)
            THEN FMax(Frac(1, 2), FMin(FromInt(2), volatility_factor))
            ELSE FromInt(1)
        vol_adjusted_multiplier == FDiv(size_multiplier, safe_vol_factor)
        target_value == FMin(FMul(FMul(FromInt(equity), base_pct), vol_adjusted_multiplier),
                             FMul(FromInt(equity), max_pct))
        additional_value == FMax(Zero, FSub(target_value, current_position_value))
    IN  IF FLt(additional_value, FromInt(100)) THEN Zero
        ELSE FDiv(additional_value, FromInt(current_price))

\* Fault injection for C24: sizing without the cap at equity * max_pct.
calculate_shares_uncapped(dip_pct, current_price, equity, current_position_value, base_pct, max_pct, dip_multiplier, volatility_factor) ==
    LET dip_ratio == FDiv(FAbs(dip_pct), Frac(3, 100))
        size_multiplier == FMul(dip_ratio, dip_multiplier)
        safe_vol_factor ==
            IF FGt(volatility_factor, Zero)
            THEN FMax(Frac(1, 2), FMin(FromInt(2), volatility_factor))
            ELSE FromInt(1)
        vol_adjusted_multiplier == FDiv(size_multiplier, safe_vol_factor)
        target_value == FMul(FMul(FromInt(equity), base_pct), vol_adjusted_multiplier)
        additional_value == FMax(Zero, FSub(target_value, current_position_value))
    IN  IF FLt(additional_value, FromInt(100)) THEN Zero
        ELSE FDiv(additional_value, FromInt(current_price))

\* Fault injection for C25: sizing that divides by the volatility factor as
\* given, without clamping it to [0.5, 2.0].
calculate_shares_unclamped(dip_pct, current_price, equity, current_position_value, base_pct, max_pct, dip_multiplier, volatility_factor) ==
    LET dip_ratio == FDiv(FAbs(dip_pct), Frac(3, 100))
        size_multiplier == FMul(dip_ratio, dip_multiplier)
        safe_vol_factor ==
            IF FGt(volatility_factor, Zero) THEN volatility_factor ELSE FromInt(1)
        vol_adjusted_multiplier == FDiv(size_multiplier, safe_vol_factor)
        target_value == FMin(FMul(FMul(FromInt(equity), base_pct), vol_adjusted_multiplier),
                             FMul(FromInt(equity), max_pct))
        additional_value == FMax(Zero, FSub(target_value, current_position_value))
    IN  IF FLt(additional_value, FromInt(100)) THEN Zero
        ELSE FDiv(additional_value, FromInt(current_price))

\* Fault injection for C26: sizing that buys the whole target whatever is
\* already held.
calculate_shares_whole_target(dip_pct, current_price, equity, current_position_value, base_pct, max_pct, dip_multiplier, volatility_factor) ==
    LET dip_ratio == FDiv(FAbs(dip_pct), Frac(3, 100))
        size_multiplier == FMul(dip_ratio, dip_multiplier)
        safe_vol_factor ==
            IF FGt(volatility_factor, Zero)
            THEN FMax(Frac(1, 2), FMin(FromInt(2), volatility_factor))
            ELSE FromInt(1)
        vol_adjusted_multiplier == FDiv(size_multiplier, safe_vol_factor)
        target_value == FMin(FMul(FMul(FromInt(equity), base_pct), vol_adjusted_multiplier),
                             FMul(FromInt(equity), max_pct))
        additional_value == FMax(Zero, target_value)
    IN  IF FLt(additional_value, FromInt(100)) THEN Zero
        ELSE FDiv(additional_value, FromInt(current_price))

\* dip_logic.calculate_shares with fractional=True; the result is a rational
\* share count, Zero when less than $100 would be deployed.
calculate_shares(dip_pct, current_price, equity, current_position_value, base_pct, max_pct, dip_multiplier, volatility_factor) ==
    LET dip_ratio == FDiv(FAbs(dip_pct), Frac(3, 100))
        size_multiplier == FMul(dip_ratio, dip_multiplier)
        safe_vol_factor ==
            IF FGt(volatility_factor, Zero)
            THEN FMax(Frac(1, 2), FMin(FromInt(2), volatility_factor))
            ELSE FromInt(1)
        vol_adjusted_multiplier == FDiv(size_multiplier, safe_vol_factor)
        target_value == FMin(FMul(FMul(FromInt(equity), base_pct), vol_adjusted_multiplier),
                             FMul(FromInt(equity), max_pct))
        additional_value == FMax(Zero, FSub(target_value, current_position_value))
    IN  IF FLt(additional_value, FromInt(100)) THEN Zero
        ELSE FDiv(additional_value, FromInt(current_price))

calculate_opportunity_score(dip_pct, threshold) == FDiv(FAbs(dip_pct), threshold)

\* Python's round(x, 2) on the exact value: to the nearest cent, ties to even.
Round2(x) ==
    LET c == FMul(x, FromInt(100))
        q == c[1] \div c[2]
        r == c[1] % c[2]
        up == \/ 2 * r > c[2]
              \/ (2 * r = c[2] /\ q % 2 = 1)
    IN  Frac(IF up THEN q + 1 ELSE q, 100)

calculate_limit_price(ask_price, offset_pct) ==
    Round2(FMul(FromInt(ask_price), FSub(FromInt(1), offset_pct)))

\* ------------------------------------------------------ brokerage responses
Bar(o, h, l, c) == [open |-> o, high |-> h, low |-> l, close |-> c]
CalmDay == Bar(100, 101, 99, 100)
History(n, day) == [i \in 1..n |-> day]

\* What get_bars can return: None, fewer bars than the lookback, or 21 calm
\* sessions closing at 100.
BarChoices ==
    { None, History(LOOKBACK_DAYS - 1, CalmDay), History(LOOKBACK_DAYS + 1, CalmDay) }

Quote(b, a) == [bid_price |-> b, ask_price |-> a]
\* The latest-quote response for one symbol: empty when the symbol is not in
\* it, else its quote.  Bids of 90, 93 and 96 against a high of 100 are dips
\* of 10%, 7% and 4%.
QuoteResponses ==
    { <<>>, <<Quote(0, 0)>>, <<Quote(90, 91)>>, <<Quote(93, 94)>>, <<Quote(96, 97)>> }

\* The account snapshot: equity, cash and Reg-T buying power.  With cash in
\* hand the buying power is below the largest order the sizing allows
\* (14583.33, for a 10% dip) and above the next (10208.33, for a 7% dip).
Account(e, c, b) == [equity |-> e, cash |-> c, regt_buying_power |-> b]
AccountChoices ==
    { Account(-1000, 20000, 50000), Account(0, 20000, 50000),
      Account(100000, 20000, 12000), Account(100000, -15000, 50000),
      Account(100000, -16000, 50000) }

Position(s, c, v) == [symbol |-> s, asset_class |-> c, market_value |-> v]
\* What get_all_positions can return.
PositionListings ==
    { <<>>,
      <<Position("SGOV", "us_equity", 50000), Position("NVDA", "us_equity", 20000),
        Position("IBIT", "us_option", 300)>> }

\* The blocking brokerage calls of one cycle take this many seconds.
CallDelays == {0, 960}

\* An order id as the SDK hands it back: alpaca-py declares Order.id a
\* uuid.UUID, and str(order.id) is a different value that equals no UUID.
Uuid(n) == <<"uuid", n>>
Str(id) == <<"str", id[2]>>

\* ------------------------------------------------------------ dictionaries
Get(d, k, default) == IF k \in DOMAIN d THEN d[k] ELSE default
Put(d, k, v) == [x \in DOMAIN d \cup {k} |-> IF x = k THEN v ELSE d[x]]
Without(d, ks) == [x \in DOMAIN d \ ks |-> d[x]]
EmptyDict == [x \in {} |-> 0]

\* ------------------------------------------------------------- scan_symbol
get_current_price(quote_response) ==
    IF quote_response = <<>> THEN NoPrice
    ELSE LET quote == quote_response[1]
             price == IF quote.bid_price > 0 THEN quote.bid_price ELSE quote.ask_price
         IN  IF price > 0 THEN price ELSE NoPrice

RECURSIVE SumRanges(_, _, _)
\* sum((bar['high'] - bar['low']) / bar['close'] for bars lo..hi with close > 0)
SumRanges(bars, lo, hi) ==
    IF lo > hi THEN Zero
    ELSE IF lo = hi
    THEN (IF bars[lo].close > 0
          THEN Frac(bars[lo].high - bars[lo].low, bars[lo].close)
          ELSE Zero)
    ELSE LET mid == (lo + hi) \div 2
         IN  FAdd(SumRanges(bars, lo, mid), SumRanges(bars, mid + 1, hi))

\* scan_symbol's volatility factor over bars[-21:-1].
volatility_factor(bars) ==
    LET n == Len(bars)
        lo == IF n - 20 > 1 THEN n - 20 ELSE 1
        hi == n - 1
        cnt == Cardinality({i \in lo..hi : bars[i].close > 0})
        avg_daily_range ==
            IF cnt > 0 THEN FDiv(SumRanges(bars, lo, hi), FromInt(cnt)) ELSE Frac(2, 100)
    IN  FDiv(avg_daily_range, Frac(2, 100))

\* The names src/utils.py defines.
UtilsNames ==
    { "format_money", "format_percent", "calculate_opportunity_score", "get_bars",
      "get_current_price", "scan_opportunities_during_brake", "log_brake_status",
      "log_capital_exhaustion" }
\* `from utils import calculate_intraday_drop' raises ImportError.
IntradayImportRaises == "calculate_intraday_drop" \notin UtilsNames

\* The intraday drop of the most recent bar (section 4.1 of the specification;
\* no file of the repository defines it).
calculate_intraday_drop(bars) ==
    LET b == bars[Len(bars)]
    IN  IF b.open > 0 /\ b.close < b.open THEN Frac(b.close - b.open, b.open) ELSE None

Skip(why) == [result |-> <<>>, reason |-> why]

\* Lines 404-482: scan_symbol past its collateral check.  An empty result
\* (None) or one opportunity, with the reason it logs.  t is the clock; ltt and
\* recent are last_trade_times and _recent_trades.
scan_tradeable(symbol, equity, position_map, bars, quote_response, ltt, recent, t) ==
    IF bars = None THEN Skip("no_bars")
    ELSE
    LET price == get_current_price(quote_response)
        current_price == IF price = NoPrice THEN bars[Len(bars)].close ELSE price
        vol == volatility_factor(bars)
        dip_pct == calculate_dip(current_price, bars, LOOKBACK_DAYS)
    IN  IF dip_pct = None THEN Skip("no_dip")
        ELSE IF symbol \in VOLATILE_TICKERS /\ IntradayImportRaises THEN Skip("scan_error")
        ELSE
        LET intraday_drop_pct ==
                IF symbol \in VOLATILE_TICKERS THEN calculate_intraday_drop(bars) ELSE None
            intraday_multiplier ==
                IF /\ intraday_drop_pct # None
                   /\ FGe(FAbs(intraday_drop_pct), INTRADAY_DROP_THRESHOLD)
                THEN INTRADAY_MULTIPLIER ELSE FromInt(1)
            min_dip_threshold == get_dip_threshold(symbol)
            current_position_value == FromInt(Get(position_map, symbol, 0))
            max_position_value == FMul(FromInt(equity), MAX_POSITION_PCT)
            last_trade == Get(ltt, symbol, NoTime)
            last_trade_timestamp == Get(recent, symbol, 0)
            verdict == should_buy(symbol, dip_pct, min_dip_threshold, current_position_value,
                                  max_position_value, last_trade, COOLDOWN_HOURS,
                                  MIN_ABSOLUTE_DIP, t)
        IN  IF t - last_trade_timestamp < COOLDOWN_HOURS * 3600 THEN Skip("cache_cooldown")
            ELSE IF ~verdict.ok THEN Skip(verdict.reason)
            ELSE [result |-> << [symbol |-> symbol,
                                 dip_pct |-> dip_pct,
                                 threshold |-> min_dip_threshold,
                                 current_price |-> current_price,
                                 volatility_factor |-> vol,
                                 intraday_multiplier |-> intraday_multiplier,
                                 intraday_drop_pct |-> intraday_drop_pct,
                                 current_position_value |-> current_position_value,
                                 max_position_value |-> max_position_value] >>,
                  reason |-> "qualifies"]

\* Fault injection for C6: scan_symbol without its collateral check.
scan_symbol_unfiltered(symbol, equity, position_map, bars, quote_response, ltt, recent, t) ==
    scan_tradeable(symbol, equity, position_map, bars, quote_response, ltt, recent, t)

\* scan_symbol: collateral symbols are skipped before any data is fetched.
scan_symbol(symbol, equity, position_map, bars, quote_response, ltt, recent, t) ==
    IF symbol \in COLLATERAL_POSITIONS THEN Skip("collateral")
    ELSE scan_tradeable(symbol, equity, position_map, bars, quote_response, ltt, recent, t)

\* --------------------------------------------------------------- prioritize
\* Fault injection for C11: priority by raw dip instead of dip over threshold.
ScoreRawDip(opp) == FAbs(opp.dip_pct)

\* The sort key of line 288.
Score(opp) == calculate_opportunity_score(opp.dip_pct, opp.threshold)

\* Fault injection for C32: an insertion that puts an opportunity ahead of
\* the earlier ones of equal score.
InsertAheadOfEquals(sorted, o) ==
    LET k == Cardinality({i \in 1..Len(sorted) : FGt(Score(sorted[i]), Score(o))})
    IN  SubSeq(sorted, 1, k) \o <<o>> \o SubSeq(sorted, k + 1, Len(sorted))

\* Insert o behind every element whose score is not below its own.
InsertByScore(sorted, o) ==
    LET k == Cardinality({i \in 1..Len(sorted) : FGe(Score(sorted[i]), Score(o))})
    IN  SubSeq(sorted, 1, k) \o <<o>> \o SubSeq(sorted, k + 1, Len(sorted))

RECURSIVE SortByScore(_)
\* list.sort(key=score, reverse=True): descending and stable.
SortByScore(s) ==
    IF s = <<>> THEN <<>>
    ELSE InsertByScore(SortByScore(SubSeq(s, 1, Len(s) - 1)), s[Len(s)])

\* ------------------------------------------------------ execute_opportunity
\* The parameters dip_logic.calculate_shares declares, and the keywords
\* execute_opportunity passes after its seven positional arguments.
CalculateSharesParams ==
    { "dip_pct", "current_price", "equity", "current_position_value", "base_pct",
      "max_pct", "dip_multiplier", "fractional", "volatility_factor" }
SizingCallKeywords == {"fractional", "volatility_factor", "intraday_multiplier"}
\* A keyword the callee does not declare raises TypeError.
SizingCallRaises == ~(SizingCallKeywords \subseteq CalculateSharesParams)

Outcome(ok, why, shares, value) ==
    [success |-> ok, reason |-> why, shares |-> shares, order_value |-> value]

\* Lines 528-545: the margin-limit and buying-power checks on a sized order.
\* committed is _cycle_order_value.
check_capital(shares, order_value, equity, cash, committed, buying_power, use_margin) ==
    LET projected_cash == FSub(FSub(FromInt(cash), committed), order_value)
        margin_debt == FMax(Zero, FSub(Zero, projected_cash))
        projected_ratio == IF equity > 0 THEN FDiv(margin_debt, FromInt(equity)) ELSE Zero
    IN  IF use_margin /\ FGt(projected_ratio, MAX_MARGIN_PCT)
        THEN Outcome(FALSE, "capital", shares, order_value)
        ELSE IF use_margin /\ FGt(order_value, FromInt(buying_power))
        THEN Outcome(FALSE, "capital", shares, order_value)
        ELSE Outcome(TRUE, "executed", shares, order_value)

\* Lines 522-545: what execute_opportunity does with the share count once
\* calculate_shares has returned it.
check_sized(shares, current_price, equity, cash, committed, buying_power, use_margin) ==
    IF FLt(shares, Frac(1, 100)) THEN Outcome(FALSE, "too_small", shares, Zero)
    ELSE check_capital(shares, FMul(shares, FromInt(current_price)), equity, cash, committed,
                       buying_power, use_margin)

\* Fault injection for C18: an exception in the sizing call reported as a
\* capital denial.
execute_opportunity_reports_capital(opp, equity, cash, committed, buying_power, use_margin) ==
    Outcome(FALSE, "capital", Zero, Zero)

\* execute_opportunity up to its call of _place_order: the (success, reason)
\* it returns, with the share count and order value it computed.
execute_opportunity(opp, equity, cash, committed, buying_power, use_margin) ==
    IF SizingCallRaises THEN Outcome(FALSE, "error", Zero, Zero)
    ELSE check_sized(calculate_shares(opp.dip_pct, opp.current_price, equity,
                                      opp.current_position_value, BASE_POSITION_PCT,
                                      MAX_POSITION_PCT, DIP_MULTIPLIER, opp.volatility_factor),
                     opp.current_price, equity, cash, committed, buying_power, use_margin)

\* ------------------------------------------------------------ _place_order
Books(pending, ltt, recent, accepted) ==
    [pending |-> pending, ltt |-> ltt, recent |-> recent, accepted |-> accepted]

\* Fault injection for C2: _place_order that submits and tracks the order but
\* stamps neither last_trade_times nor _recent_trades.
place_order_forgets(symbol, shares, is_extended_hours, quote_response, submit_ok, id, t, pending, ltt, recent) ==
    IF quote_response = <<>> \/ ~submit_ok THEN Books(pending, ltt, recent, FALSE)
    ELSE Books(Put(pending, id, [symbol |-> symbol, shares |-> shares,
                                 limit |-> Zero, submitted |-> t]),
               ltt, recent, TRUE)

\* Fault injection for C38: _place_order that stamps the primary cooldown
\* map before it fetches the quote, so that a failed or abandoned submission
\* leaves a stamp behind.
place_order_stamps_first(symbol, shares, is_extended_hours, quote_response, submit_ok, id, t, pending, ltt, recent) ==
    IF quote_response = <<>> \/ ~submit_ok THEN Books(pending, Put(ltt, symbol, t), recent, FALSE)
    ELSE Books(Put(pending, id, [symbol |-> symbol, shares |-> shares,
                                 limit |-> Zero, submitted |-> t]),
               Put(ltt, symbol, t), Put(recent, symbol, t), TRUE)

\* _place_order on the three maps it writes.  quote_response is the quote
\* fetched for the limit price, submit_ok whether submit_order returns
\* rather than raises, id the accepted order's id, t the clock.
place_order(symbol, shares, is_extended_hours, quote_response, submit_ok, id, t, pending, ltt, recent) ==
    IF quote_response = <<>> THEN Books(pending, ltt, recent, FALSE)
    ELSE
    LET quote == quote_response[1]
        ask_price == IF quote.ask_price > 0 THEN quote.ask_price ELSE quote.bid_price
        bid_price == IF quote.bid_price > 0 THEN quote.bid_price ELSE 0
        limit_price ==
            IF is_extended_hours /\ bid_price > 0
            THEN Round2(FMul(FromInt(bid_price), Frac(1001, 1000)))
            ELSE calculate_limit_price(ask_price, LIMIT_OFFSET_PCT)
    IN  IF ask_price <= 0 THEN Books(pending, ltt, recent, FALSE)
        ELSE IF ~submit_ok THEN Books(pending, ltt, recent, FALSE)
        ELSE Books(Put(pending, id, [symbol |-> symbol, shares |-> shares,
                                     limit |-> limit_price, submitted |-> t]),
                   Put(ltt, symbol, t), Put(recent, symbol, t), TRUE)

\* ---------------------------------------------------- manage_pending_orders
\* The ids the open-order loop asks the brokerage to cancel: listed, tracked
\* under str(order.id), and older than the timeout.
TimedOut(pending, open_orders, t) ==
    { Str(o) : o \in { x \in open_orders :
                         /\ Str(x) \in DOMAIN pending
                         /\ t - pending[Str(x)].submitted > ORDER_TIMEOUT_MINUTES * 60 } }

\* Fault injection for C9: a clean-up loop that retires nothing.
CompletedNone(pending, open_orders) == {}

\* The tracked ids the clean-up loop retires: no longer in the open set.
Completed(pending, open_orders) == DOMAIN pending \ { Str(o) : o \in open_orders }

\* Fault injection for C40: a failed listing treated as an empty one, so
\* that every tracked order is retired.
manage_pending_orders_failed_as_empty(pending, listed, open_orders, t) ==
    LET cancels == TimedOut(pending, open_orders, t)
        kept == Without(pending, cancels)
    IN  [pending |-> Without(kept, Completed(kept, open_orders)), cancels |-> cancels]

\* manage_pending_orders: the pending map it leaves and the cancellations it
\* requests.  listed is whether get_orders returns rather than raises.
manage_pending_orders(pending, listed, open_orders, t) ==
    IF ~listed THEN [pending |-> pending, cancels |-> {}]
    ELSE LET cancels == TimedOut(pending, open_orders, t)
             kept == Without(pending, cancels)
         IN  [pending |-> Without(kept, Completed(kept, open_orders)), cancels |-> cancels]

\* ----------------------------------------------------------- the run loop
\* main(): run()'s return value is discarded, so every return of run() ends
\* the process with status 0.
main_exit_status(returned) == 0

margin_debt_of(cash) == IF -cash > 0 THEN -cash ELSE 0
margin_ratio_of(equity, cash) ==
    IF equity > 0 THEN Frac(margin_debt_of(cash), equity) ELSE Zero
\* Fault injection for C3: a safety check that never trips.
brake_never_trips(use_margin, equity, cash) == FALSE
\* Fault injection for C4: a safety check that trips at the threshold itself.
brake_trips_inclusive(use_margin, equity, cash) ==
    use_margin /\ FGe(margin_ratio_of(equity, cash), MARGIN_SAFETY_THRESHOLD)

\* The start-of-cycle safety check.
brake_trips(use_margin, equity, cash) ==
    use_margin /\ FGt(margin_ratio_of(equity, cash), MARGIN_SAFETY_THRESHOLD)

\* tradeable_positions -> position_map
build_position_map(all_positions) ==
    LET idx == { i \in 1..Len(all_positions) :
                   /\ all_positions[i].asset_class = "us_equity"
                   /\ all_positions[i].symbol \notin COLLATERAL_POSITIONS }
        last(s) == CHOOSE i \in idx : /\ all_positions[i].symbol = s
                                       /\ \A j \in idx : all_positions[j].symbol = s => j <= i
    IN  [ s \in { all_positions[i].symbol : i \in idx } |-> all_positions[last(s)].market_value ]

\* Fault injection for C15: a backoff that doubles without a cap.
backoff_uncapped(retry_count) == 10 * (2 ^ retry_count)

\* Line 342: wait_time
backoff_wait(retry_count) ==
    IF 10 * (2 ^ retry_count) < 60 THEN 10 * (2 ^ retry_count) ELSE 60

\* ------------------------------------------------------------------- state
VARIABLES
    pc,                      \* where run() stands: start, account, scan, execute, exited
    now,                     \* the clock, epoch seconds
    USE_MARGIN,              \* config.USE_MARGIN, fixed for the run
    last_trade_times,        \* self.last_trade_times
    recent_trades,           \* self._recent_trades
    pending_orders,          \* self.pending_orders
    retry_count,             \* self._retry_count
    cycle_order_value,       \* self._cycle_order_value
    brake_cycle_count,       \* self._brake_cycle_count
    cycle_count,             \* run(): cycle_count
    cycle_start,             \* run(): cycle_start
    account,                 \* run(): equity, cash, account.regt_buying_power
    is_extended_hours,       \* run(): is_extended_hours
    all_positions,           \* run(): all_positions, as listed
    position_map,            \* run(): position_map
    scan_idx,                \* run(): position of `for symbol in symbols_to_trade'
    qualifying_opportunities,\* run(): qualifying_opportunities
    exec_idx,                \* run(): position of `for opp in qualifying_opportunities'
    executed_count,          \* run(): executed_count
    skipped_capital,         \* run(): skipped_capital
    exit_status,             \* the process's exit status, StillRunning until it ends
    run_result,              \* what run() returned: "False" or "None"
    broker_open,             \* brokerage: ids of this process's orders still open
    submit_log,              \* brokerage: the orders it accepted, in order
    cancel_log,              \* brokerage: the ids cancel_order_by_id was called with
    cycle_path,              \* log: the path the current or last cycle took
    cycle_retry,             \* log: _retry_count when the current cycle began
    last_sleep,              \* log: the argument of the last time.sleep
    scanned,                 \* log: symbols scan_symbol was called with this cycle
    last_scan,               \* log: the last scan_symbol call and what it logged
    last_exec,               \* log: the last execute_opportunity call and its result
    last_manage,             \* log: the last manage_pending_orders call
    missed_scan              \* log: whether the last brake cycle ran the missed-opportunity scan

vars ==
    << pc, now, USE_MARGIN, last_trade_times, recent_trades, pending_orders, retry_count,
       cycle_order_value, brake_cycle_count, cycle_count, cycle_start, account,
       is_extended_hours, all_positions, position_map, scan_idx, qualifying_opportunities,
       exec_idx, executed_count, skipped_capital, exit_status, run_result, broker_open,
       submit_log, cancel_log, cycle_path, cycle_retry, last_sleep, scanned, last_scan,
       last_exec, last_manage, missed_scan >>

\* self.* of LittleDipper, the instance state.
instance == << last_trade_times, recent_trades, pending_orders, retry_count,
               cycle_order_value, brake_cycle_count >>
\* The locals of run() that one cycle assigns.
locals == << account, is_extended_hours, all_positions, position_map, scan_idx,
             qualifying_opportunities, exec_idx, executed_count, skipped_capital >>
brokerage == << broker_open, submit_log, cancel_log >>
ended == << exit_status, run_result >>
logs == << scanned, last_scan, last_exec, last_manage, missed_scan >>

\* The exit status of a process that has not exited.
StillRunning == -1
NoAccount == Account(0, 0, 0)
NoScan == [symbol |-> "", reason |-> "", data_dip |-> None]
NoExec == [symbol |-> "", success |-> FALSE, reason |-> "", accepted |-> FALSE,
           committed_before |-> Zero, opp |-> <<>>]
NoManage == [called |-> FALSE, listed |-> FALSE, open |-> {}, before |-> EmptyDict,
             after |-> EmptyDict, cancels |-> {}, at |-> 0]

\* The instance __init__ leaves, and the log of a run not yet begun.
Constructed ==
    /\ now = ProcessStart
    /\ USE_MARGIN \in BOOLEAN
    /\ last_trade_times = EmptyDict
    /\ recent_trades = EmptyDict
    /\ pending_orders = EmptyDict
    /\ retry_count = 0
    /\ cycle_order_value = Zero
    /\ brake_cycle_count = 0
    /\ cycle_count = 0
    /\ cycle_start = ProcessStart
    /\ account = NoAccount
    /\ is_extended_hours = FALSE
    /\ all_positions = <<>>
    /\ position_map = EmptyDict
    /\ scan_idx = 0
    /\ qualifying_opportunities = <<>>
    /\ exec_idx = 0
    /\ executed_count = 0
    /\ skipped_capital = <<>>
    /\ exit_status = StillRunning
    /\ run_result = "running"
    /\ broker_open = {}
    /\ submit_log = <<>>
    /\ cancel_log = {}
    /\ cycle_path = "none"
    /\ cycle_retry = 0
    /\ last_sleep = 0
    /\ scanned = {}
    /\ last_scan = NoScan
    /\ last_exec = NoExec
    /\ last_manage = NoManage
    /\ missed_scan = FALSE

Init ==
    /\ pc = "start"
    /\ Constructed

\* The locals are dead at the top of the loop: every cycle assigns them
\* before it reads them.
ClearLocals ==
    /\ account' = NoAccount
    /\ is_extended_hours' = FALSE
    /\ all_positions' = <<>>
    /\ position_map' = EmptyDict
    /\ scan_idx' = 0
    /\ qualifying_opportunities' = <<>>
    /\ exec_idx' = 0
    /\ executed_count' = 0
    /\ skipped_capital' = <<>>

\* time.sleep(seconds) after brokerage calls that took `delay' seconds.
Sleep(delay, seconds) ==
    /\ now' = now + delay + seconds
    /\ last_sleep' = seconds

\* Lines 117-119: a new iteration of `while True' begins; what the log of
\* the previous one held is dropped.
StartCycle(path) ==
    /\ cycle_count' = cycle_count + 1
    /\ cycle_start' = now
    /\ cycle_path' = path
    /\ cycle_retry' = retry_count
    /\ scanned' = {}
    /\ last_scan' = NoScan
    /\ last_exec' = NoExec
    /\ last_manage' = NoManage
    /\ missed_scan' = FALSE

\* A new iteration within the number of iterations explored.
BeginCycle(path) ==
    /\ cycle_count < MaxCycles
    /\ StartCycle(path)

\* Lines 126-134: the session is closed; sleep and continue.
MarketClosed ==
    /\ pc = "start"
    /\ BeginCycle("closed")
    /\ Sleep(0, SCAN_INTERVAL_SEC)
    /\ ClearLocals
    /\ UNCHANGED << pc, USE_MARGIN, instance, brokerage, ended >>

\* Fault injection for C17: an exception that ends run() instead of being
\* handled.
BackOffGivesUp ==
    /\ cycle_order_value' = cycle_order_value
    /\ Sleep(0, 0)
    /\ retry_count' = retry_count + 1
    /\ ClearLocals
    /\ pc' = "exited"
    /\ run_result' = "raised"
    /\ exit_status' = 1
    /\ UNCHANGED << USE_MARGIN, last_trade_times, recent_trades, pending_orders,
                    brake_cycle_count, brokerage >>

\* Lines 340-346: the handler of an exception raised in the cycle body:
\* wait, count the failure, go round again.  get_account raises after line
\* 147 has reset the committed total, get_clock before.
BackOff ==
    /\ \E after_reset \in BOOLEAN :
          cycle_order_value' = IF after_reset THEN Zero ELSE cycle_order_value
    /\ Sleep(0, backoff_wait(retry_count))
    /\ retry_count' = retry_count + 1
    /\ ClearLocals
    /\ UNCHANGED << pc, USE_MARGIN, last_trade_times, recent_trades, pending_orders,
                    brake_cycle_count, brokerage, ended >>

\* Lines 117-125 and 340-346: get_clock or get_account raises; back off and
\* retry.
CycleException ==
    /\ pc = "start"
    /\ BeginCycle("exception")
    /\ BackOff

\* Lines 337-339 and 348: the operator interrupts; the loop breaks and run()
\* returns None.  Its locals go with its frame, and the cycle's log is closed.
Interrupt ==
    /\ pc # "exited"
    /\ pc' = "exited"
    /\ run_result' = "None"
    /\ exit_status' = main_exit_status("None")
    /\ cycle_path' = "interrupted"
    /\ ClearLocals
    /\ scanned' = {}
    /\ last_scan' = NoScan
    /\ last_exec' = NoExec
    /\ UNCHANGED << now, USE_MARGIN, instance, cycle_count, cycle_start, brokerage,
                    cycle_retry, last_sleep, last_manage, missed_scan >>

\* Lines 126-150: the session is regular or extended; the committed total is
\* reset and the account read.
GetAccount ==
    /\ pc = "start"
    /\ BeginCycle("trading")
    /\ \E extended \in BOOLEAN, snapshot \in AccountChoices :
          /\ is_extended_hours' = extended
          /\ account' = snapshot
    /\ cycle_order_value' = Zero
    /\ pc' = "account"
    /\ UNCHANGED << now, USE_MARGIN, last_trade_times, recent_trades, pending_orders,
                    retry_count, brake_cycle_count, all_positions, position_map, scan_idx,
                    qualifying_opportunities, exec_idx, executed_count, skipped_capital,
                    brokerage, ended, last_sleep >>

\* Lines 153-155: non-positive equity; run() returns False.
EquityHalt ==
    /\ pc = "account"
    /\ account.equity <= 0
    /\ pc' = "exited"
    /\ run_result' = "False"
    /\ exit_status' = main_exit_status("False")
    /\ cycle_path' = "halt"
    /\ UNCHANGED << now, USE_MARGIN, instance, cycle_count, cycle_start, locals,
                    brokerage, cycle_retry, last_sleep, logs >>

\* Fault injection for C31: a brake that scans in every cycle from the
\* tenth to the thirtieth.
EmergencyBrakeScansFromTenth ==
    /\ pc = "account"
    /\ account.equity > 0
    /\ brake_trips(USE_MARGIN, account.equity, account.cash)
    /\ brake_cycle_count' = brake_cycle_count + 1
    /\ missed_scan' = (/\ 10 <= brake_cycle_count'
                       /\ brake_cycle_count' <= 30
                       /\ brake_cycle_count' % 10 >= 0)
    /\ Sleep(0, SCAN_INTERVAL_SEC)
    /\ pc' = "start"
    /\ cycle_path' = "brake"
    /\ UNCHANGED << USE_MARGIN, last_trade_times, recent_trades, pending_orders, retry_count,
                    cycle_order_value, cycle_count, cycle_start, locals, brokerage, ended,
                    cycle_retry, scanned, last_scan, last_exec, last_manage >>

\* Lines 164-193: the brake trips; count the cycle, perhaps scan for what
\* is missed (log only), sleep and continue.  equity and cash stay readable:
\* log_brake_status reports them.
EmergencyBrake ==
    /\ pc = "account"
    /\ account.equity > 0
    /\ brake_trips(USE_MARGIN, account.equity, account.cash)
    /\ brake_cycle_count' = brake_cycle_count + 1
    /\ missed_scan' = (/\ 10 <= brake_cycle_count'
                       /\ brake_cycle_count' <= 30
                       /\ brake_cycle_count' % 10 = 0)
    /\ Sleep(0, SCAN_INTERVAL_SEC)
    /\ pc' = "start"
    /\ cycle_path' = "brake"
    /\ UNCHANGED << USE_MARGIN, last_trade_times, recent_trades, pending_orders, retry_count,
                    cycle_order_value, cycle_count, cycle_start, locals, brokerage, ended,
                    cycle_retry, scanned, last_scan, last_exec, last_manage >>

\* Fault injection for C7: a failed position listing handled like any other
\* exception, by the backoff path.
PositionsFailedBacksOff ==
    /\ pc = "account"
    /\ account.equity > 0
    /\ ~brake_trips(USE_MARGIN, account.equity, account.cash)
    /\ brake_cycle_count' = 0
    /\ Sleep(0, backoff_wait(retry_count))
    /\ retry_count' = retry_count + 1
    /\ pc' = "start"
    /\ cycle_path' = "positions_failed"
    /\ ClearLocals
    /\ UNCHANGED << USE_MARGIN, last_trade_times, recent_trades, pending_orders,
                    cycle_order_value, cycle_count, cycle_start, brokerage, ended,
                    cycle_retry, logs >>

\* Lines 194-224 and 254-260: the brake does not trip and the position
\* listing fails; sleep and continue.
PositionsFailed ==
    /\ pc = "account"
    /\ account.equity > 0
    /\ ~brake_trips(USE_MARGIN, account.equity, account.cash)
    /\ brake_cycle_count' = 0
    /\ Sleep(0, SCAN_INTERVAL_SEC)
    /\ pc' = "start"
    /\ cycle_path' = "positions_failed"
    /\ ClearLocals
    /\ UNCHANGED << USE_MARGIN, last_trade_times, recent_trades, pending_orders, retry_count,
                    cycle_order_value, cycle_count, cycle_start, brokerage, ended,
                    cycle_retry, logs >>

\* Fault injection for C14: a healthy cycle that leaves the brake counter as
\* it was.
PositionsLoadedKeepsCount ==
    /\ pc = "account"
    /\ account.equity > 0
    /\ ~brake_trips(USE_MARGIN, account.equity, account.cash)
    /\ \E listing \in PositionListings :
          /\ all_positions' = listing
          /\ position_map' = build_position_map(listing)
    /\ scan_idx' = 1
    /\ qualifying_opportunities' = <<>>
    /\ pc' = "scan"
    /\ cycle_path' = "full"
    /\ UNCHANGED << now, USE_MARGIN, instance, cycle_count, cycle_start, account,
                    is_extended_hours, exec_idx, executed_count, skipped_capital, brokerage,
                    ended, cycle_retry, last_sleep, logs >>

\* Lines 194-252: the brake does not trip and the positions are listed.
PositionsLoaded ==
    /\ pc = "account"
    /\ account.equity > 0
    /\ ~brake_trips(USE_MARGIN, account.equity, account.cash)
    /\ brake_cycle_count' = 0
    /\ \E listing \in PositionListings :
          /\ all_positions' = listing
          /\ position_map' = build_position_map(listing)
    /\ scan_idx' = 1
    /\ qualifying_opportunities' = <<>>
    /\ pc' = "scan"
    /\ cycle_path' = "full"
    /\ UNCHANGED << now, USE_MARGIN, last_trade_times, recent_trades, pending_orders,
                    retry_count, cycle_order_value, cycle_count, cycle_start, account,
                    is_extended_hours, exec_idx, executed_count, skipped_capital, brokerage,
                    ended, cycle_retry, last_sleep, logs >>

\* What the bars and the quote show for a symbol, whether or not scan_symbol
\* gets as far as fetching them.
DataDip(bars, quote_response) ==
    LET price == get_current_price(quote_response)
    IN  IF bars = None THEN None
        ELSE calculate_dip(IF price = NoPrice THEN bars[Len(bars)].close ELSE price,
                           bars, LOOKBACK_DAYS)

\* Lines 277-283: one iteration of the scan loop.
ScanSymbol ==
    /\ pc = "scan"
    /\ scan_idx <= Len(SYMBOLS)
    /\ \E bars \in BarChoices, quote_response \in QuoteResponses :
          LET symbol == SYMBOLS[scan_idx]
              r == scan_symbol(symbol, account.equity, position_map, bars, quote_response,
                               last_trade_times, recent_trades, now)
          IN  /\ qualifying_opportunities' = qualifying_opportunities \o r.result
              /\ last_scan' = [symbol |-> symbol, reason |-> r.reason,
                               data_dip |-> DataDip(bars, quote_response)]
              /\ scanned' = scanned \cup {symbol}
    /\ scan_idx' = scan_idx + 1
    /\ UNCHANGED << pc, now, USE_MARGIN, instance, cycle_count, cycle_start, account,
                    is_extended_hours, all_positions, position_map, exec_idx, executed_count,
                    skipped_capital, brokerage, ended, cycle_path, cycle_retry, last_sleep,
                    last_exec, last_manage, missed_scan >>

\* Lines 285-306: the scan is over; sort by score, best first.
Prioritize ==
    /\ pc = "scan"
    /\ scan_idx > Len(SYMBOLS)
    /\ qualifying_opportunities' = SortByScore(qualifying_opportunities)
    /\ exec_idx' = 1
    /\ executed_count' = 0
    /\ skipped_capital' = <<>>
    /\ pc' = "execute"
    /\ UNCHANGED << now, USE_MARGIN, instance, cycle_count, cycle_start, account,
                    is_extended_hours, all_positions, position_map, scan_idx, brokerage,
                    ended, cycle_path, cycle_retry, last_sleep, logs >>

\* What the brokerage records of an order it accepts.
Accepted(id, opp, t, cycle) ==
    [id |-> id, symbol |-> opp.symbol, dip_pct |-> opp.dip_pct, at |-> t, cycle |-> cycle]

\* Fault injection for C29: every denied opportunity, whatever the reason,
\* is listed as capital-exhausted.
RecordExecutionReportsEveryDenial(opp, out, books, committed) ==
    /\ pending_orders' = books.pending
    /\ last_trade_times' = books.ltt
    /\ recent_trades' = books.recent
    /\ cycle_order_value' = committed
    /\ executed_count' = IF out.success THEN executed_count + 1 ELSE executed_count
    /\ skipped_capital' =
          IF ~out.success
          THEN Append(skipped_capital, opp) ELSE skipped_capital
    /\ submit_log' = IF books.accepted
                     THEN Append(submit_log,
                                 Accepted(Uuid(Len(submit_log) + 1), opp, now, cycle_count))
                     ELSE submit_log
    /\ broker_open' = IF books.accepted
                      THEN broker_open \cup {Uuid(Len(submit_log) + 1)} ELSE broker_open
    /\ last_exec' = [symbol |-> opp.symbol, success |-> out.success, reason |-> out.reason,
                     accepted |-> books.accepted, committed_before |-> cycle_order_value,
                     opp |-> <<opp>>]

\* Lines 310-315 and 556-558: what run() and execute_opportunity record of
\* one call: out is the outcome, books the maps after _place_order (if it
\* was called), committed the new _cycle_order_value.
RecordExecution(opp, out, books, committed) ==
    /\ pending_orders' = books.pending
    /\ last_trade_times' = books.ltt
    /\ recent_trades' = books.recent
    /\ cycle_order_value' = committed
    /\ executed_count' = IF out.success THEN executed_count + 1 ELSE executed_count
    /\ skipped_capital' =
          IF ~out.success /\ out.reason = "capital" /\ FGt(committed, Zero)
          THEN Append(skipped_capital, opp) ELSE skipped_capital
    /\ submit_log' = IF books.accepted
                     THEN Append(submit_log,
                                 Accepted(Uuid(Len(submit_log) + 1), opp, now, cycle_count))
                     ELSE submit_log
    /\ broker_open' = IF books.accepted
                      THEN broker_open \cup {Uuid(Len(submit_log) + 1)} ELSE broker_open
    /\ last_exec' = [symbol |-> opp.symbol, success |-> out.success, reason |-> out.reason,
                     accepted |-> books.accepted, committed_before |-> cycle_order_value,
                     opp |-> <<opp>>]

\* Fault injection for C12: every attempt, failed or not, adds one share's
\* price to the committed total.
PlaceAndCommitEveryAttempt(opp, out, quote_response, submit_ok) ==
    RecordExecution(opp, out, Books(pending_orders, last_trade_times, recent_trades, FALSE),
                    FAdd(cycle_order_value, FromInt(opp.current_price)))

\* Lines 556-558: on success _place_order is called and the order value is
\* added to the committed total, whatever _place_order did.
PlaceAndCommit(opp, out, quote_response, submit_ok) ==
    RecordExecution(opp, out,
                    IF out.success
                    THEN place_order(opp.symbol, out.shares, is_extended_hours, quote_response,
                                     submit_ok /\ Len(submit_log) < MaxOrders,
                                     Uuid(Len(submit_log) + 1), now, pending_orders,
                                     last_trade_times, recent_trades)
                    ELSE Books(pending_orders, last_trade_times, recent_trades, FALSE),
                    IF out.success THEN FAdd(cycle_order_value, out.order_value)
                    ELSE cycle_order_value)

\* Lines 308-315 with execute_opportunity and, inside it, _place_order: one
\* iteration of the execution loop.
ExecuteOpportunity ==
    /\ pc = "execute"
    /\ exec_idx <= Len(qualifying_opportunities)
    /\ \E quote_response \in QuoteResponses, submit_ok \in BOOLEAN :
          PlaceAndCommit(qualifying_opportunities[exec_idx],
                         execute_opportunity(qualifying_opportunities[exec_idx],
                                             account.equity, account.cash, cycle_order_value,
                                             account.regt_buying_power, USE_MARGIN),
                         quote_response, submit_ok)
    /\ exec_idx' = exec_idx + 1
    /\ UNCHANGED << pc, now, USE_MARGIN, retry_count, brake_cycle_count, cycle_count,
                    cycle_start, account, is_extended_hours, all_positions, position_map,
                    scan_idx, qualifying_opportunities, cancel_log, ended, cycle_path,
                    cycle_retry, last_sleep, scanned, last_scan, last_manage, missed_scan >>

\* Lines 317-335: the execution loop is over; reset the failure counter,
\* manage the pending orders, sleep out the rest of the interval.  The
\* cycle's calls took `elapsed' seconds; orders may have filled since they
\* were placed; a requested cancellation may fail.
CompleteCycle ==
    /\ pc = "execute"
    /\ exec_idx > Len(qualifying_opportunities)
    /\ retry_count' = 0
    /\ \E elapsed \in CallDelays, listed \in BOOLEAN, filled \in SUBSET broker_open :
          LET open_orders == IF listed THEN broker_open \ filled ELSE {}
              m == manage_pending_orders(pending_orders, listed, open_orders, now + elapsed)
          IN  /\ pending_orders' = m.pending
              /\ cancel_log' = cancel_log \cup m.cancels
              /\ \E cancelled \in SUBSET m.cancels :
                    broker_open' = { o \in broker_open \ filled : Str(o) \notin cancelled }
              /\ last_manage' = [called |-> TRUE, listed |-> listed, open |-> open_orders,
                                 before |-> pending_orders, after |-> m.pending,
                                 cancels |-> m.cancels, at |-> now + elapsed]
              /\ Sleep(elapsed, IF SCAN_INTERVAL_SEC - elapsed > 0
                                THEN SCAN_INTERVAL_SEC - elapsed ELSE 0)
    /\ pc' = "start"
    /\ ClearLocals
    /\ scanned' = {}
    /\ last_scan' = NoScan
    /\ last_exec' = NoExec
    /\ UNCHANGED << USE_MARGIN, last_trade_times, recent_trades, cycle_order_value,
                    brake_cycle_count, cycle_count, cycle_start, submit_log, ended,
                    cycle_path, cycle_retry, missed_scan >>

Next ==
    \/ MarketClosed
    \/ CycleException
    \/ Interrupt
    \/ GetAccount
    \/ EquityHalt
    \/ EmergencyBrake
    \/ PositionsFailed
    \/ PositionsLoaded
    \/ ScanSymbol
    \/ Prioritize
    \/ ExecuteOpportunity
    \/ CompleteCycle

\* The program as built.
Spec == Init /\ [][Next]_vars

\* ------------------------------------------- the order methods, driven directly
\* run() never reaches _place_order: execute_opportunity's sizing call raises
\* first.  Before the loop starts, this driver calls scan_symbol for a
\* tradeable or a collateral watchlist symbol and then _place_order for what
\* qualified, as run() composes them around the sizing call.
DriverEquity == 100000
DriverSymbols == {"NVDA", "SGOV"}
\* Seconds that pass before a driven call: none, or the whole base cooldown.
DriverWaits == {0, COOLDOWN_HOURS * 3600}
\* The quotes a driven call sees: none, a steep dip, no dip.
DriverQuotes == {<<>>, <<Quote(90, 91)>>, <<Quote(96, 97)>>}

DriverRecord(symbol, r, books, data_dip, t) ==
    /\ pending_orders' = books.pending
    /\ last_trade_times' = books.ltt
    /\ recent_trades' = books.recent
    /\ submit_log' = IF books.accepted
                     THEN Append(submit_log,
                                 Accepted(Uuid(Len(submit_log) + 1), r.result[1], t, 0))
                     ELSE submit_log
    /\ broker_open' = IF books.accepted
                      THEN broker_open \cup {Uuid(Len(submit_log) + 1)} ELSE broker_open
    /\ last_scan' = [symbol |-> symbol, reason |-> r.reason, data_dip |-> data_dip]
    /\ now' = t

DriverPlace(symbol, r, quote_response, submit_ok, data_dip, t) ==
    DriverRecord(symbol, r,
                 IF r.result # <<>>
                 THEN place_order(symbol, FromInt(1), FALSE, quote_response, submit_ok,
                                  Uuid(Len(submit_log) + 1), t, pending_orders,
                                  last_trade_times, recent_trades)
                 ELSE Books(pending_orders, last_trade_times, recent_trades, FALSE),
                 data_dip, t)

\* One driven call: some of `waits' seconds pass, then scan_symbol runs for one
\* of `symbols' on one of `histories' and `quotes', then _place_order for what
\* qualified.
ScanThenPlaceOver(symbols, histories, quotes, waits) ==
    /\ pc = "start"
    /\ cycle_count = 0
    /\ Len(submit_log) < MaxOrders
    /\ \E symbol \in symbols, bars \in histories, quote_response \in quotes,
          submit_ok \in BOOLEAN, wait \in waits :
          /\ now + wait <= ProcessStart + COOLDOWN_HOURS * 3600
          /\ DriverPlace(symbol,
                         scan_symbol(symbol, DriverEquity, EmptyDict, bars, quote_response,
                                     last_trade_times, recent_trades, now + wait),
                         quote_response, submit_ok, DataDip(bars, quote_response), now + wait)
    /\ UNCHANGED << pc, USE_MARGIN, retry_count, cycle_order_value, brake_cycle_count,
                    cycle_count, cycle_start, locals, cancel_log, ended, cycle_path,
                    cycle_retry, last_sleep, scanned, last_exec, last_manage, missed_scan >>

ScanThenPlace == ScanThenPlaceOver(DriverSymbols, BarChoices, DriverQuotes, DriverWaits)

NextOrders == Next \/ ScanThenPlace

SpecOrders == Init /\ [][NextOrders]_vars

\* ------------------------------------------- scans after an earlier order
\* The driven calls alone, at every hour of the base cooldown after an
\* accepted order, for a plain and a volatility-flagged symbol, on a steep
\* dip, a dip at the steep-dip cutoff and no dip.
RescanSymbols == {"NVDA", "IBIT"}
RescanQuotes == {<<Quote(90, 91)>>, <<Quote(93, 94)>>, <<Quote(96, 97)>>}
RescanWaits == { h * 3600 : h \in 0..COOLDOWN_HOURS }

Rescan == ScanThenPlaceOver(RescanSymbols, BarChoices, RescanQuotes, RescanWaits)

SpecRescan == Init /\ [][Rescan]_vars

\* ------------------------------------------- runs that go on failing
\* Past the iterations explored in full, the loop is followed through
\* iterations whose get_clock or get_account raises.
FailAgain ==
    /\ pc = "start"
    /\ MaxCycles <= cycle_count
    /\ cycle_count < MaxFailures
    /\ StartCycle("exception")
    /\ BackOff

NextRetry == Next \/ FailAgain

SpecRetry == Init /\ [][NextRetry]_vars

\* ------------------------------------------- runs under a sustained brake
MaxBrakeCycles == 33
\* Past the iterations explored in full, the loop is followed through
\* iterations whose account snapshot trips the brake: lines 117-150 here,
\* lines 164-193 in EmergencyBrake.
BrakeAgain ==
    /\ pc = "start"
    /\ MaxCycles <= cycle_count
    /\ cycle_count < MaxBrakeCycles
    /\ StartCycle("trading")
    /\ \E extended \in BOOLEAN, snapshot \in AccountChoices :
          /\ snapshot.equity > 0
          /\ brake_trips(USE_MARGIN, snapshot.equity, snapshot.cash)
          /\ is_extended_hours' = extended
          /\ account' = snapshot
    /\ cycle_order_value' = Zero
    /\ pc' = "account"
    /\ UNCHANGED << now, USE_MARGIN, last_trade_times, recent_trades, pending_orders,
                    retry_count, brake_cycle_count, all_positions, position_map, scan_idx,
                    qualifying_opportunities, exec_idx, executed_count, skipped_capital,
                    brokerage, ended, last_sleep >>

NextBrake == Next \/ BrakeAgain

SpecBrake == Init /\ [][NextBrake]_vars

\* ------------------------------------------- the sort, called directly
\* What the scan loop found for each of the first three watchlist symbols:
\* nothing, or a dip; 10% for NVDA, 6% for MSFT and 16% for IBIT all score 2.
SortDips == {None, Frac(-6, 100), Frac(-8, 100), Frac(-10, 100), Frac(-16, 100)}
RECURSIVE AppendedInScanOrder(_, _)
\* Lines 277-280: the results of the first n symbols, appended in watchlist
\* order.
AppendedInScanOrder(dips, n) ==
    IF n = 0 THEN <<>>
    ELSE AppendedInScanOrder(dips, n - 1) \o
         (IF dips[n] = None THEN <<>>
          ELSE << [symbol |-> SYMBOLS[n], dip_pct |-> dips[n],
                   threshold |-> get_dip_threshold(SYMBOLS[n])] >>)

\* Lines 286-290 on one scan result, which is kept in the scan log.
SortCall ==
    /\ pc = "start"
    /\ cycle_count = 0
    /\ last_scan = NoScan
    /\ \E dips \in [1..3 -> SortDips] :
          /\ qualifying_opportunities' = SortByScore(AppendedInScanOrder(dips, 3))
          /\ last_scan' = [symbol |-> "SORT", appended |-> AppendedInScanOrder(dips, 3)]
    /\ UNCHANGED << pc, now, USE_MARGIN, instance, cycle_count, cycle_start, account,
                    is_extended_hours, all_positions, position_map, scan_idx, exec_idx,
                    executed_count, skipped_capital, brokerage, ended, cycle_path,
                    cycle_retry, last_sleep, scanned, last_exec, last_manage, missed_scan >>

SpecSort == Init /\ [][SortCall]_vars

\* ------------------------------------------- start-up
\* Fault injection for C33: a validation without the threshold range check.
validate_any_threshold(cfg) ==
    IF cfg.ALPACA_KEY = "" \/ cfg.ALPACA_SECRET = "" THEN "ValueError"
    ELSE IF "DEFAULT" \notin DOMAIN cfg.DIP_THRESHOLDS THEN "ValueError"
    ELSE IF FLe(cfg.MAX_POSITION_PCT, cfg.BASE_POSITION_PCT) THEN "ValueError"
    ELSE "True"

\* Config.validate: what it returns, or the exception it raises.
validate(cfg) ==
    IF cfg.ALPACA_KEY = "" \/ cfg.ALPACA_SECRET = "" THEN "ValueError"
    ELSE IF "DEFAULT" \notin DOMAIN cfg.DIP_THRESHOLDS THEN "ValueError"
    ELSE IF \E symbol \in DOMAIN cfg.DIP_THRESHOLDS :
               \/ FLe(cfg.DIP_THRESHOLDS[symbol], Zero)
               \/ FGt(cfg.DIP_THRESHOLDS[symbol], Frac(1, 2))
    THEN "ValueError"
    ELSE IF FLe(cfg.MAX_POSITION_PCT, cfg.BASE_POSITION_PCT) THEN "ValueError"
    ELSE "True"

\* Configurations a process may be started with: credentials from the
\* environment, set or empty; threshold tables with and without the DEFAULT
\* entry, with values as configured, at both ends of (0, 0.5] and outside
\* it; base and maximum position sizes as configured, equal and swapped.
ConfigCredentials == {"", "set"}
ConfigDefaultThresholds == {Zero, Frac(4, 100), Frac(1, 2), Frac(51, 100)}
ConfigSymbolThresholds == {Frac(-1, 100), Frac(5, 100), Frac(1, 2)}
ConfigThresholds ==
    { [DEFAULT |-> d, NVDA |-> n] : d \in ConfigDefaultThresholds,
                                    n \in ConfigSymbolThresholds }
    \cup { [NVDA |-> n] : n \in ConfigSymbolThresholds }
ConfigSizes ==
    { <<BASE_POSITION_PCT, MAX_POSITION_PCT>>, <<MAX_POSITION_PCT, MAX_POSITION_PCT>>,
      <<MAX_POSITION_PCT, BASE_POSITION_PCT>> }
Configs ==
    { [ALPACA_KEY |-> k, ALPACA_SECRET |-> sec, DIP_THRESHOLDS |-> th,
       BASE_POSITION_PCT |-> sz[1], MAX_POSITION_PCT |-> sz[2]] :
          k \in ConfigCredentials, sec \in ConfigCredentials, th \in ConfigThresholds,
          sz \in ConfigSizes }

\* main() has been entered and nothing constructed yet.
InitMain ==
    /\ pc = "main"
    /\ Constructed

\* LittleDipper.__init__ under main(): validate the configuration, create
\* the brokerage clients; sys.exit(1) if either fails (SystemExit passes
\* main's `except Exception').  The configuration is kept in the scan log,
\* which is empty until the first scan.
Construct ==
    /\ pc = "main"
    /\ \E cfg \in Configs, clients_ok \in BOOLEAN :
          /\ last_scan' = [symbol |-> "CONFIG", config |-> cfg, clients_ok |-> clients_ok]
          /\ IF validate(cfg) = "True" /\ clients_ok
             THEN /\ pc' = "start"
                  /\ UNCHANGED ended
             ELSE /\ pc' = "exited"
                  /\ exit_status' = 1
                  /\ run_result' = "not_called"
    /\ UNCHANGED << now, USE_MARGIN, instance, cycle_count, cycle_start, locals, brokerage,
                    cycle_path, cycle_retry, last_sleep, scanned, last_exec, last_manage,
                    missed_scan >>

\* The loop starts once the instance is constructed.
NextMain == Construct \/ (pc # "main" /\ Next)

SpecMain == InitMain /\ [][NextMain]_vars

\* ------------------------------------------- execution past the sizing call
\* The sizing call of lines 514-520 raises in every call, so run() never
\* reaches lines 522-558.  Here they are entered with the share count
\* calculate_shares returns for the opportunity when it is called with the
\* arguments it declares, as the tests call it.
execute_opportunity_sized(opp, equity, cash, committed, buying_power, use_margin) ==
    check_sized(calculate_shares(opp.dip_pct, opp.current_price, equity,
                                 opp.current_position_value, BASE_POSITION_PCT,
                                 MAX_POSITION_PCT, DIP_MULTIPLIER, opp.volatility_factor),
                opp.current_price, equity, cash, committed, buying_power, use_margin)

\* The quotes _place_order sees there: none, or one it can price.
SizedQuotes == {<<>>, <<Quote(90, 91)>>}
\* The iterations of the loop in which they are entered.
MaxSizedCycles == 1

\* Lines 308-315 with lines 522-558 and, inside them, _place_order: one
\* iteration of the execution loop whose sizing call returned.
ExecuteSized ==
    /\ pc = "execute"
    /\ cycle_count <= MaxSizedCycles
    /\ exec_idx <= Len(qualifying_opportunities)
    /\ \E quote_response \in SizedQuotes, submit_ok \in BOOLEAN :
          PlaceAndCommit(qualifying_opportunities[exec_idx],
                         execute_opportunity_sized(qualifying_opportunities[exec_idx],
                                                   account.equity, account.cash,
                                                   cycle_order_value,
                                                   account.regt_buying_power, USE_MARGIN),
                         quote_response, submit_ok)
    /\ exec_idx' = exec_idx + 1
    /\ UNCHANGED << pc, now, USE_MARGIN, retry_count, brake_cycle_count, cycle_count,
                    cycle_start, account, is_extended_hours, all_positions, position_map,
                    scan_idx, qualifying_opportunities, cancel_log, ended, cycle_path,
                    cycle_retry, last_sleep, scanned, last_scan, last_manage, missed_scan >>

NextSized == Next \/ ExecuteSized

SpecSized == Init /\ [][NextSized]_vars

\* ------------------------------------------- should_buy, called directly
\* The arguments of one call of dip_logic.should_buy: dips around the
\* absolute floor (5%) and the steep-dip cutoff (7%), thresholds on both
\* sides of the floor, positions below and at the cap, no last trade or one
\* up to four hours old, the configured cooldown, the tests' four hours, and
\* the smallest base cooldowns, none and one hour.
GateDips == { Frac(-d, 100) : d \in {3, 4, 5, 6, 7, 8} }
GateThresholds == { Frac(p, 100) : p \in {3, 4, 6, 8} }
GatePositions == { FromInt(v) : v \in {0, 4999, 5000} }
GateMaxPosition == FromInt(5000)
GateElapsed == {NoTime, 3599, 3600, 7199, 7200, 10799, 10800, 14400}
GateCooldowns == {0, 1, COOLDOWN_HOURS, 4}

\* One call, with its arguments and its result written to the scan log.
ShouldBuyCall ==
    /\ pc = "start"
    /\ cycle_count = 0
    /\ last_scan = NoScan
    /\ \E dip_pct \in GateDips, min_dip \in GateThresholds, position_value \in GatePositions,
          elapsed \in GateElapsed, cooldown_hours \in GateCooldowns :
          last_scan' =
              [symbol |-> "TEST", data_dip |-> dip_pct, min_dip |-> min_dip,
               position_value |-> position_value, max_position |-> GateMaxPosition,
               last_trade_time |-> IF elapsed = NoTime THEN NoTime ELSE now - elapsed,
               cooldown_hours |-> cooldown_hours, min_absolute_dip |-> MIN_ABSOLUTE_DIP,
               t |-> now,
               ok |-> should_buy("TEST", dip_pct, min_dip, position_value, GateMaxPosition,
                                 IF elapsed = NoTime THEN NoTime ELSE now - elapsed,
                                 cooldown_hours, MIN_ABSOLUTE_DIP, now).ok,
               reason |-> should_buy("TEST", dip_pct, min_dip, position_value, GateMaxPosition,
                                     IF elapsed = NoTime THEN NoTime ELSE now - elapsed,
                                     cooldown_hours, MIN_ABSOLUTE_DIP, now).reason]
    /\ UNCHANGED << pc, now, USE_MARGIN, instance, cycle_count, cycle_start, locals,
                    brokerage, ended, cycle_path, cycle_retry, last_sleep, scanned,
                    last_exec, last_manage, missed_scan >>

SpecGate == Init /\ [][ShouldBuyCall]_vars

\* ------------------------------------------- calculate_dip, called directly
\* The most bars one call is given.
MaxBars == 3
\* Closing prices: around the tests' 100, and the values a high must not be.
DipCloses == {-5, 0, 95, 100, 105}
DipPrices == {95, 100, 105}
DipLookbacks == 1..MaxBars
RECURSIVE BarLists(_)
\* Every list of n bars.
BarLists(n) ==
    IF n = 0 THEN {<<>>}
    ELSE { Append(b, [close |-> c]) : b \in BarLists(n - 1), c \in DipCloses }
DipBars == UNION { BarLists(n) : n \in 0..MaxBars }

\* One call, with its arguments and its result written to the scan log.
CalculateDipCall ==
    /\ pc = "start"
    /\ cycle_count = 0
    /\ last_scan = NoScan
    /\ \E current_price \in DipPrices, bars \in DipBars, lookback_days \in DipLookbacks :
          last_scan' = [symbol |-> "DIP", current_price |-> current_price, bars |-> bars,
                        lookback_days |-> lookback_days,
                        data_dip |-> calculate_dip(current_price, bars, lookback_days)]
    /\ UNCHANGED << pc, now, USE_MARGIN, instance, cycle_count, cycle_start, locals,
                    brokerage, ended, cycle_path, cycle_retry, last_sleep, scanned,
                    last_exec, last_manage, missed_scan >>

SpecDip == Init /\ [][CalculateDipCall]_vars

\* --------------------------------------- calculate_shares, called directly
\* The arguments of the tests' calls (equity 32000, price 100, no position,
\* base 2.5%, cap 15%, multiplier 1.75) and values around them: dips from
\* below the 3% baseline to past the cap, a tenth of the equity, positions
\* just under and at a target, volatility factors outside, at and inside
\* the clamp, and a non-positive one.
SizingDips == { Frac(-d, 100) : d \in {1, 3, 6, 7, 12} }
SizingPrices == {50, 100}
SizingEquities == {3200, 32000}
SizingPositions == { FromInt(v) : v \in {0, 2750, 4800} }
SizingVolatility == {FromInt(-1), Frac(1, 4), Frac(1, 2), FromInt(1), FromInt(2), FromInt(3)}

SizingCall(dip_pct, current_price, equity, current_position_value, vol) ==
    [symbol |-> "SIZE", dip_pct |-> dip_pct, current_price |-> current_price,
     equity |-> equity, current_position_value |-> current_position_value,
     volatility_factor |-> vol,
     shares |-> calculate_shares(dip_pct, current_price, equity, current_position_value,
                                 BASE_POSITION_PCT, MAX_POSITION_PCT, DIP_MULTIPLIER,
                                 vol)]

\* One call, with its arguments and its result written to the scan log.
CalculateSharesCall ==
    /\ pc = "start"
    /\ cycle_count = 0
    /\ last_scan = NoScan
    /\ \E dip_pct \in SizingDips, current_price \in SizingPrices, equity \in SizingEquities,
          current_position_value \in SizingPositions, vol \in SizingVolatility :
          last_scan' = SizingCall(dip_pct, current_price, equity, current_position_value,
                                  vol)
    /\ UNCHANGED << pc, now, USE_MARGIN, instance, cycle_count, cycle_start, locals,
                    brokerage, ended, cycle_path, cycle_retry, last_sleep, scanned,
                    last_exec, last_manage, missed_scan >>

\* A second call with the first call's price, equity and position and any
\* dip and volatility factor, written to the execution log.
CalculateSharesAgain ==
    /\ pc = "start"
    /\ cycle_count = 0
    /\ last_scan # NoScan
    /\ last_scan.symbol = "SIZE"
    /\ last_exec = NoExec
    /\ \E dip_pct \in SizingDips, vol \in SizingVolatility :
          last_exec' = SizingCall(dip_pct, last_scan.current_price, last_scan.equity,
                                  last_scan.current_position_value, vol)
    /\ UNCHANGED << pc, now, USE_MARGIN, instance, cycle_count, cycle_start, locals,
                    brokerage, ended, cycle_path, cycle_retry, last_sleep, scanned,
                    last_scan, last_manage, missed_scan >>

NextSizing == CalculateSharesCall \/ CalculateSharesAgain

SpecSizing == Init /\ [][NextSizing]_vars

\* ------------------------------------------------------------------ claims
\* C1: with margin in use, a call of execute_opportunity executes the order
\* only if max(0, -(cash - committed - order_value)) / equity is at most
\* MAX_MARGIN_PCT; above it the call is denied with reason "capital", nothing
\* is submitted and the committed total is unchanged.
C1_MarginGateDecides ==
    (USE_MARGIN /\ pc = "execute" /\ last_exec.symbol # "") =>
        LET opp == last_exec.opp[1]
            order_value ==
                FMul(calculate_shares(opp.dip_pct, opp.current_price, account.equity,
                                      opp.current_position_value, BASE_POSITION_PCT,
                                      MAX_POSITION_PCT, DIP_MULTIPLIER, opp.volatility_factor),
                     FromInt(opp.current_price))
            projected_cash ==
                FSub(FSub(FromInt(account.cash), last_exec.committed_before), order_value)
            projected_ratio ==
                FDiv(FMax(Zero, FSub(Zero, projected_cash)), FromInt(account.equity))
        IN  /\ last_exec.success => FLe(projected_ratio, MAX_MARGIN_PCT)
            /\ FGt(projected_ratio, MAX_MARGIN_PCT) =>
                  /\ last_exec.reason = "capital"
                  /\ ~last_exec.accepted
                  /\ cycle_order_value = last_exec.committed_before

\* C2: no symbol receives a second order submission within its effective
\* cooldown window (the base cooldown, halved for a dip steeper than 7%) after
\* its previous accepted submission: any two accepted submissions for one
\* symbol are at least that window apart, and no opportunity awaiting
\* execution is for a symbol submitted less than that window ago.
C2_NoOrderInsideCooldown ==
    /\ \A i \in 1..Len(submit_log) : \A j \in 1..Len(submit_log) :
          (i < j /\ submit_log[i].symbol = submit_log[j].symbol) =>
              submit_log[j].at - submit_log[i].at >=
                  effective_cooldown(submit_log[j].dip_pct, COOLDOWN_HOURS) * 3600
    /\ \A k \in 1..Len(qualifying_opportunities) : \A i \in 1..Len(submit_log) :
          submit_log[i].symbol = qualifying_opportunities[k].symbol =>
              now - submit_log[i].at >=
                  effective_cooldown(qualifying_opportunities[k].dip_pct, COOLDOWN_HOURS) * 3600

\* A symbol has been submitted twice, a whole base cooldown apart, and in a
\* later cycle its steep dip is refused because the window is still open.
C2_RefusedInsideCooldown ==
    /\ cycle_count >= 1
    /\ Len(submit_log) = 2
    /\ submit_log[1].symbol = submit_log[2].symbol
    /\ last_scan.symbol = submit_log[2].symbol
    /\ last_scan.reason = "cache_cooldown"
    /\ last_scan.data_dip # None
    /\ FGt(FAbs(last_scan.data_dip), Frac(7, 100))
    /\ now - submit_log[2].at < effective_cooldown(last_scan.data_dip, COOLDOWN_HOURS) * 3600

\* C3: in a cycle whose account snapshot trips the emergency brake (margin in
\* use and max(0, -cash) / equity above MARGIN_SAFETY_THRESHOLD) scan_symbol
\* is never called, no order is submitted and the committed total stays zero;
\* and a cycle takes the brake path only on such a snapshot.
C3_BrakeCycleTradesNothing ==
    LET tripped ==
            /\ USE_MARGIN
            /\ account.equity > 0
            /\ FGt(Frac(IF account.cash < 0 THEN -account.cash ELSE 0, account.equity),
                   MARGIN_SAFETY_THRESHOLD)
    IN  /\ tripped =>
              /\ pc \in {"account", "start"}
              /\ scanned = {}
              /\ qualifying_opportunities = <<>>
              /\ \A i \in 1..Len(submit_log) : submit_log[i].cycle # cycle_count
              /\ cycle_order_value = Zero
        /\ cycle_path = "brake" => tripped

\* A brake cycle has run to its sleep.
C3_BrakeTripped ==
    /\ cycle_path = "brake"
    /\ pc = "start"
    /\ brake_cycle_count >= 1
    /\ last_sleep = SCAN_INTERVAL_SEC
    /\ account.cash = -16000

C5_HaltExitsWithFailure ==
    run_result = "False" =>
        /\ pc = "exited"
        /\ scanned = {}
        /\ \A i \in 1..Len(submit_log) : submit_log[i].cycle # cycle_count
        /\ exit_status # StillRunning
        /\ exit_status # 0

\* C6: no order is ever submitted for a collateral symbol, even when it is on
\* the watchlist with a qualifying dip, and no collateral symbol is a key of
\* the position map.
C6_CollateralNeverTraded ==
    /\ \A i \in 1..Len(submit_log) : submit_log[i].symbol \notin COLLATERAL_POSITIONS
    /\ \A id \in DOMAIN pending_orders : pending_orders[id].symbol \notin COLLATERAL_POSITIONS
    /\ \A k \in 1..Len(qualifying_opportunities) :
          qualifying_opportunities[k].symbol \notin COLLATERAL_POSITIONS
    /\ DOMAIN position_map \cap COLLATERAL_POSITIONS = {}

\* A collateral symbol held in the account and 10% below its high has been
\* scanned in a cycle, and the position map holds the other equity position.
C6_CollateralDipSkipped ==
    /\ pc = "scan"
    /\ last_scan.symbol \in COLLATERAL_POSITIONS
    /\ last_scan.reason = "collateral"
    /\ last_scan.data_dip = Frac(-1, 10)
    /\ \E i \in 1..Len(all_positions) : all_positions[i].symbol = last_scan.symbol
    /\ DOMAIN position_map = {"NVDA"}

\* C7: a cycle whose position listing fails scans no symbol, submits no order
\* and sleeps the scan interval before the next cycle, leaving the
\* failure counter that drives the exception backoff as it was.
C7_PositionFailureSkipsCycle ==
    cycle_path = "positions_failed" =>
        /\ pc = "start"
        /\ scanned = {}
        /\ qualifying_opportunities = <<>>
        /\ \A i \in 1..Len(submit_log) : submit_log[i].cycle # cycle_count
        /\ last_sleep = SCAN_INTERVAL_SEC
        /\ now = cycle_start + SCAN_INTERVAL_SEC
        /\ retry_count = cycle_retry

\* The listing fails in the cycle after one that raised an exception.
C7_AfterEarlierFailure ==
    /\ cycle_path = "positions_failed"
    /\ cycle_retry = 1
    /\ retry_count = 1
    /\ cycle_count = 2

\* C8: when manage_pending_orders runs, a tracked order the brokerage still
\* lists as open and whose age exceeds ORDER_TIMEOUT_MINUTES has a
\* cancellation requested for it and is out of the pending map on return.
C8_TimedOutOrderCancelled ==
    last_manage.called =>
        \A id \in DOMAIN last_manage.before :
            (/\ id \in last_manage.open
             /\ last_manage.at - last_manage.before[id].submitted > ORDER_TIMEOUT_MINUTES * 60)
            => /\ (id \in last_manage.cancels \/ Str(id) \in last_manage.cancels)
               /\ id \notin DOMAIN last_manage.after

\* C9: a tracked order absent from the open-order listing is removed from
\* the pending map by manage_pending_orders and no cancellation is requested
\* for it.
C9_AbsentOrderRetiredWithoutCancel ==
    (last_manage.called /\ last_manage.listed) =>
        \A id \in DOMAIN last_manage.before :
            id \notin last_manage.open =>
                /\ id \notin DOMAIN last_manage.after
                /\ id \notin last_manage.cancels
                /\ Str(id) \notin last_manage.cancels

\* A tracked order has filled before the listing and the call retired it.
C9_FilledOrderRetired ==
    /\ last_manage.called
    /\ last_manage.listed
    /\ \E id \in DOMAIN last_manage.before :
          /\ id \notin last_manage.open
          /\ id \notin DOMAIN last_manage.after
          /\ id \notin DOMAIN pending_orders
    /\ last_manage.cancels = {}

\* C10: a pending-order record is gone no later than one cycle after its age
\* exceeds ORDER_TIMEOUT_MINUTES, whatever kind of cycle that is: at the end
\* of every cycle, no record remains whose age already exceeded the timeout
\* when the cycle began.
C10_PendingLifetimeBounded ==
    (pc = "start" /\ cycle_count >= 1) =>
        \A id \in DOMAIN pending_orders :
            cycle_start - pending_orders[id].submitted <= ORDER_TIMEOUT_MINUTES * 60

\* C11: in the execution phase the qualifying opportunities stand in
\* non-increasing order of |dip_pct| / threshold and execute_opportunity is
\* called on them one at a time in that order, so a dip of 2.33 times its
\* threshold is attempted before a larger raw dip of 2 times its threshold;
\* the scores of (-0.10, 0.05), (-0.15, 0.08), (-0.04, 0.03) are 2, 1.875, 4/3.
C11_ExecutedInScoreOrder ==
    /\ pc = "execute" =>
          /\ \A i \in 1..Len(qualifying_opportunities) :
                \A j \in 1..Len(qualifying_opportunities) :
                   i < j =>
                      FGe(FDiv(FAbs(qualifying_opportunities[i].dip_pct),
                               qualifying_opportunities[i].threshold),
                          FDiv(FAbs(qualifying_opportunities[j].dip_pct),
                               qualifying_opportunities[j].threshold))
          /\ exec_idx \in 1..(Len(qualifying_opportunities) + 1)
          /\ (exec_idx = 1) = (last_exec.symbol = "")
          /\ exec_idx > 1 => last_exec.opp = <<qualifying_opportunities[exec_idx - 1]>>
    /\ calculate_opportunity_score(Frac(-10, 100), Frac(5, 100)) = FromInt(2)
    /\ calculate_opportunity_score(Frac(-15, 100), Frac(8, 100)) = Frac(1875, 1000)
    /\ calculate_opportunity_score(Frac(-4, 100), Frac(3, 100)) = Frac(4, 3)

\* Scanned first with the larger raw dip, NVDA is attempted after MSFT, whose
\* dip is the larger multiple of its threshold.
C11_SmallerDipAttemptedFirst ==
    /\ pc = "execute"
    /\ Len(qualifying_opportunities) = 2
    /\ qualifying_opportunities[1].symbol = "MSFT"
    /\ qualifying_opportunities[2].symbol = "NVDA"
    /\ FGt(FAbs(qualifying_opportunities[2].dip_pct), FAbs(qualifying_opportunities[1].dip_pct))
    /\ exec_idx = 3
    /\ last_exec.symbol = "NVDA"

\* C12: the committed total is zero when a cycle's execution phase starts
\* and, after every call of execute_opportunity in it, is what it was before
\* the call plus the call's order value if the call succeeded, and unchanged
\* if it did not; so it is the sum of the cycle's earlier successes and holds
\* nothing of a previous cycle.
C12_CommittedIsSumOfSuccesses ==
    pc = "execute" =>
        /\ exec_idx = 1 => cycle_order_value = Zero
        /\ last_exec.symbol = "" => cycle_order_value = Zero
        /\ last_exec.symbol # "" =>
              LET opp == last_exec.opp[1]
                  order_value ==
                      FMul(calculate_shares(opp.dip_pct, opp.current_price, account.equity,
                                            opp.current_position_value, BASE_POSITION_PCT,
                                            MAX_POSITION_PCT, DIP_MULTIPLIER,
                                            opp.volatility_factor),
                           FromInt(opp.current_price))
              IN  /\ last_exec.success =>
                        cycle_order_value = FAdd(last_exec.committed_before, order_value)
                  /\ ~last_exec.success => cycle_order_value = last_exec.committed_before
                  /\ (executed_count = 0) => cycle_order_value = Zero

\* In the second cycle two opportunities have been attempted.
C12_SecondCycleAttempts ==
    /\ pc = "execute"
    /\ cycle_count = 2
    /\ exec_idx = 3
    /\ last_exec.symbol # ""
    /\ executed_count = 0

\* C13: a call of execute_opportunity whose order value exceeds the account's
\* buying power is denied with reason "capital": no order is submitted and
\* the committed total is unchanged.
C13_BuyingPowerDenial ==
    (pc = "execute" /\ last_exec.symbol # "") =>
        LET opp == last_exec.opp[1]
            order_value ==
                FMul(calculate_shares(opp.dip_pct, opp.current_price, account.equity,
                                      opp.current_position_value, BASE_POSITION_PCT,
                                      MAX_POSITION_PCT, DIP_MULTIPLIER, opp.volatility_factor),
                     FromInt(opp.current_price))
        IN  FGt(order_value, FromInt(account.regt_buying_power)) =>
                /\ ~last_exec.success
                /\ last_exec.reason = "capital"
                /\ ~last_exec.accepted
                /\ cycle_order_value = last_exec.committed_before

\* C14: the brake counter increases by exactly 1 in each cycle in which the
\* brake trips, is zero after any cycle whose snapshot shows a margin ratio at
\* or below the safety threshold (or margin not in use), and changes at no
\* other step; so it counts the tripped cycles since the last healthy one.
C14_BrakeCounterCountsTrippedCycles ==
    [][ LET ratio == IF account.equity > 0
                     THEN Frac(IF account.cash < 0 THEN -account.cash ELSE 0, account.equity)
                     ELSE Zero
            tripped == USE_MARGIN /\ FGt(ratio, MARGIN_SAFETY_THRESHOLD)
            decided == pc = "account" /\ pc' # "exited" /\ pc' # "account"
        IN  /\ (decided /\ tripped) => brake_cycle_count' = brake_cycle_count + 1
            /\ (decided /\ ~tripped) => brake_cycle_count' = 0
            /\ ~decided => brake_cycle_count' = brake_cycle_count
            /\ cycle_path' \in {"full", "positions_failed"} => brake_cycle_count' = 0
      ]_vars

\* The brake has tripped in two cycles running.
C14_SecondBrakeCycle ==
    /\ cycle_path = "brake"
    /\ pc = "start"
    /\ cycle_count = 2
    /\ brake_cycle_count = 2

\* C15: a cycle that raises with k failures counted (k from 0) waits
\* min(10 * 2^k, 60) seconds and counts one more; failing from the start on,
\* the waits are 10, 20, 40, 60, 60, ...: each double the one before until
\* the cap of 60, never decreasing, never above the cap.
C15_BackoffDoublesToCap ==
    LET expected(k) == IF k = 0 THEN 10 ELSE IF k = 1 THEN 20 ELSE IF k = 2 THEN 40 ELSE 60
    IN  /\ cycle_path = "exception" =>
              /\ last_sleep = expected(cycle_retry)
              /\ now = cycle_start + last_sleep
              /\ retry_count = cycle_retry + 1
              /\ last_sleep <= 60
              /\ cycle_retry > 0 =>
                    /\ last_sleep >= expected(cycle_retry - 1)
                    /\ \/ last_sleep = 2 * expected(cycle_retry - 1)
                       \/ last_sleep = 60
        /\ (cycle_path = "exception" /\ retry_count = cycle_count) =>
              last_sleep = <<10, 20, 40, 60, 60, 60, 60, 60>>[cycle_count]

\* Every cycle so far has raised and the fifth has waited the capped 60
\* seconds, as the fourth did.
C15_FifthFailureWaitsCap ==
    /\ cycle_path = "exception"
    /\ cycle_count = 5
    /\ cycle_retry = 4
    /\ retry_count = 5
    /\ last_sleep = 60
    /\ now = ProcessStart + 10 + 20 + 40 + 60 + 60

\* C16: every cycle that completes without raising an exception (a full
\* trading cycle, market closed, brake active, position listing failed)
\* leaves the backoff counter at zero, so the next failure waits the base
\* delay.
C16_CompletedCycleResetsBackoff ==
    (pc = "start" /\ cycle_path \in {"full", "closed", "brake", "positions_failed"}) =>
        /\ retry_count = 0
        /\ backoff_wait(retry_count) = 10

\* C17: an exception raised in a cycle body (by get_clock or get_account,
\* the calls of the body that no inner handler guards) never ends the loop:
\* the cycle backs off and the loop stands ready to start another cycle.
\* The loop has ended only when a snapshot showed equity <= 0 or the operator
\* interrupted.
C17_ExceptionNeverEndsLoop ==
    /\ cycle_path = "exception" =>
          /\ pc = "start"
          /\ run_result = "running"
          /\ exit_status = StillRunning
          /\ cycle_count < MaxFailures => ENABLED (GetAccount \/ FailAgain)
    /\ pc = "exited" =>
          /\ cycle_path \in {"halt", "interrupted"}
          /\ run_result \in {"False", "None"}
          /\ cycle_path = "halt" => (run_result = "False" /\ account.equity <= 0)
          /\ cycle_path = "interrupted" => run_result = "None"
    /\ run_result # "running" => pc = "exited"

\* The first cycle raised and the second has started and read the account.
C17_CycleAfterException ==
    /\ cycle_count = 2
    /\ cycle_retry = 1
    /\ cycle_path = "trading"
    /\ pc = "account"
    /\ run_result = "running"
    /\ now = ProcessStart + 10

\* C18: a call of execute_opportunity that raises (as the sizing call makes
\* every call do) returns (False, "error") for its opportunity only: it
\* submits and commits nothing, is not counted as executed or as
\* capital-exhausted, and the loop goes on to the next opportunity; the
\* execution phase ends only when every opportunity of the list was attempted.
C18_ErrorSkipsOneOpportunity ==
    [][ /\ (pc = "execute" /\ pc' = "execute" /\ exec_idx' # exec_idx) =>
              /\ exec_idx <= Len(qualifying_opportunities)
              /\ exec_idx' = exec_idx + 1
              /\ qualifying_opportunities' = qualifying_opportunities
              /\ last_exec'.opp = <<qualifying_opportunities[exec_idx]>>
              /\ last_exec'.reason = "error"
              /\ ~last_exec'.success
              /\ ~last_exec'.accepted
              /\ skipped_capital' = skipped_capital
              /\ executed_count' = executed_count
              /\ cycle_order_value' = cycle_order_value
              /\ submit_log' = submit_log
        /\ (pc = "execute" /\ pc' = "start") => exec_idx > Len(qualifying_opportunities)
        /\ (pc = "execute" /\ pc' = "execute") => cycle_count' = cycle_count
      ]_vars

\* The first of two opportunities raised and the second was attempted in the
\* same cycle; neither counts as executed or capital-exhausted.
C18_SecondAttemptedAfterError ==
    /\ pc = "execute"
    /\ Len(qualifying_opportunities) = 2
    /\ exec_idx = 3
    /\ last_exec.opp = <<qualifying_opportunities[2]>>
    /\ last_exec.reason = "error"
    /\ executed_count = 0
    /\ skipped_capital = <<>>

\* C19: should_buy denies whenever |dip| is below the absolute floor,
\* whatever the symbol threshold, position value and last-trade time, also
\* when |dip| reaches the symbol threshold; a dip exactly at the floor is not
\* denied by this check.
C19_FloorDominates ==
    last_scan.symbol = "TEST" =>
        /\ FLt(FAbs(last_scan.data_dip), last_scan.min_absolute_dip) =>
              (~last_scan.ok /\ last_scan.reason = "absolute_min")
        /\ ~FLt(FAbs(last_scan.data_dip), last_scan.min_absolute_dip) =>
              last_scan.reason # "absolute_min"
        /\ FAbs(last_scan.data_dip) = last_scan.min_absolute_dip =>
              last_scan.reason # "absolute_min"

\* A 4% dip over a 3% threshold, under the 5% floor, with room in the
\* position and no last trade, is denied by the floor.
C19_AboveThresholdBelowFloor ==
    /\ last_scan.symbol = "TEST"
    /\ last_scan.data_dip = Frac(-4, 100)
    /\ last_scan.min_dip = Frac(3, 100)
    /\ last_scan.min_absolute_dip = Frac(5, 100)
    /\ last_scan.position_value = Zero
    /\ last_scan.last_trade_time = NoTime
    /\ ~last_scan.ok
    /\ last_scan.reason = "absolute_min"

\* C20: should_buy allows if and only if |dip| >= absolute floor, |dip| >=
\* symbol threshold, position_value < max_position, and there is no last
\* trade or the time since it is at least the effective cooldown; otherwise
\* its reason is that of the first failing check in the order floor,
\* threshold, position cap, cooldown.  A 6% dip with a 4% threshold, no prior
\* trade, position 0 and max position 5000 is allowed.
C20_FourChecksInOrder ==
    /\ last_scan.symbol = "TEST" =>
          LET a == FAbs(last_scan.data_dip)
              floor_ok == FGe(a, last_scan.min_absolute_dip)
              threshold_ok == FGe(a, last_scan.min_dip)
              cap_ok == FLt(last_scan.position_value, last_scan.max_position)
              hours == IF FGt(a, Frac(7, 100))
                       THEN (IF last_scan.cooldown_hours \div 2 > 1
                             THEN last_scan.cooldown_hours \div 2 ELSE 1)
                       ELSE last_scan.cooldown_hours
              cooldown_ok == \/ last_scan.last_trade_time = NoTime
                             \/ last_scan.t - last_scan.last_trade_time >= hours * 3600
          IN  /\ last_scan.ok = (floor_ok /\ threshold_ok /\ cap_ok /\ cooldown_ok)
              /\ last_scan.reason =
                    IF ~floor_ok THEN "absolute_min"
                    ELSE IF ~threshold_ok THEN "threshold"
                    ELSE IF ~cap_ok THEN "position_max"
                    ELSE IF ~cooldown_ok THEN "cooldown"
                    ELSE "OK"
    /\ should_buy("TEST", Frac(-6, 100), Frac(4, 100), Zero, FromInt(5000), NoTime,
                  COOLDOWN_HOURS, Frac(5, 100), ProcessStart).ok

\* A dip that passes floor and threshold with the position at its cap and
\* the cooldown still running is denied for the cap, the earlier check.
C20_CapDeniedBeforeCooldown ==
    /\ last_scan.symbol = "TEST"
    /\ last_scan.data_dip = Frac(-6, 100)
    /\ last_scan.min_dip = Frac(4, 100)
    /\ last_scan.position_value = last_scan.max_position
    /\ last_scan.last_trade_time = last_scan.t - 3600
    /\ ~last_scan.ok
    /\ last_scan.reason = "position_max"

\* C21: a symbol showing a dip steeper than 7% whose last accepted order is
\* at least the halved cooldown old (half the base cooldown, at least one
\* hour) is not denied for cooldown when it is scanned, even though the order
\* is younger than the base cooldown.
C21_SteepDipFreeAfterHalvedCooldown ==
    ( /\ last_scan.symbol # ""
      /\ last_scan.data_dip # None
      /\ FGt(FAbs(last_scan.data_dip), Frac(7, 100))
      /\ \E i \in 1..Len(submit_log) : submit_log[i].symbol = last_scan.symbol
      /\ \A i \in 1..Len(submit_log) :
            submit_log[i].symbol = last_scan.symbol =>
                /\ now - submit_log[i].at >=
                       effective_cooldown(last_scan.data_dip, COOLDOWN_HOURS) * 3600
                /\ now - submit_log[i].at < COOLDOWN_HOURS * 3600 )
    => last_scan.reason \notin {"cache_cooldown", "cooldown"}

\* C22: calculate_dip returns no result when fewer than lookback_days bars
\* are supplied, when the highest close of the last lookback_days bars is not
\* positive, and when the current price is at or above that high; otherwise it
\* returns (current_price - high) / high, which is strictly negative.  It
\* never returns zero or a positive number.
C22_DipStrictlyNegativeOrNone ==
    last_scan.symbol = "DIP" =>
        LET bars == last_scan.bars
            n == last_scan.lookback_days
            window == (Len(bars) - n + 1)..Len(bars)
            dip == last_scan.data_dip
        IN  /\ dip # None => FLt(dip, Zero)
            /\ Len(bars) < n => dip = None
            /\ Len(bars) >= n =>
                  \E k \in window :
                      /\ \A i \in window : bars[i].close <= bars[k].close
                      /\ IF bars[k].close <= 0 \/ last_scan.current_price >= bars[k].close
                         THEN dip = None
                         ELSE dip = Frac(last_scan.current_price - bars[k].close,
                                         bars[k].close)

\* A dip measured from the high of the window although an older bar, outside
\* the window, closed higher.
C22_DipFromWindowHigh ==
    /\ last_scan.symbol = "DIP"
    /\ last_scan.lookback_days = 2
    /\ Len(last_scan.bars) = 3
    /\ last_scan.bars[1].close = 105
    /\ last_scan.bars[2].close = 95
    /\ last_scan.bars[3].close = 100
    /\ last_scan.current_price = 95
    /\ last_scan.data_dip = Frac(-5, 100)

\* C23: with every other argument held fixed, calculate_shares never returns
\* fewer shares for a deeper dip: across the $100 minimum-order floor, where
\* the result leaves zero, and across the cap at equity * max_pct.
C23_SharesMonotoneInDip ==
    (last_scan.symbol = "SIZE" /\ last_exec.symbol = "SIZE"
        /\ last_scan.volatility_factor = last_exec.volatility_factor) =>
        /\ FLe(FAbs(last_scan.dip_pct), FAbs(last_exec.dip_pct)) =>
              FLe(last_scan.shares, last_exec.shares)
        /\ FLe(FAbs(last_exec.dip_pct), FAbs(last_scan.dip_pct)) =>
              FLe(last_exec.shares, last_scan.shares)

\* Two calls that differ in the dip alone: the shallower one is under the
\* floor and returns zero, the deeper one is held at the cap.
C23_FromFloorToCap ==
    /\ last_scan.symbol = "SIZE"
    /\ last_exec.symbol = "SIZE"
    /\ last_scan.volatility_factor = last_exec.volatility_factor
    /\ FLt(FAbs(last_scan.dip_pct), FAbs(last_exec.dip_pct))
    /\ last_scan.shares = Zero
    /\ last_scan.current_position_value = Zero
    /\ FMul(last_exec.shares, FromInt(last_exec.current_price)) =
           FMul(FromInt(last_exec.equity), MAX_POSITION_PCT)

\* C24: whatever the arguments, the shares calculate_shares returns are worth
\* at most equity * max_pct less the current position value (at most zero when
\* the position is already larger); a 12% dip at equity 32000 with base
\* 2.5%, multiplier 1.75 and cap 15% is sized at the cap, 4800.
C24_NeverPastTheCap ==
    last_scan.symbol = "SIZE" =>
        LET value == FMul(last_scan.shares, FromInt(last_scan.current_price))
            max_value == FMul(FromInt(last_scan.equity), MAX_POSITION_PCT)
        IN  /\ FLe(value, FMax(Zero, FSub(max_value, last_scan.current_position_value)))
            /\ ( /\ last_scan.dip_pct = Frac(-12, 100)
                 /\ last_scan.equity = 32000
                 /\ last_scan.current_position_value = Zero
                 /\ last_scan.volatility_factor = FromInt(1) )
               => value = FromInt(4800)

\* The 12% dip of the tests: 48 shares at 100, although the uncapped target
\* is 5600.
C24_TwelvePercentCapped ==
    /\ last_scan.symbol = "SIZE"
    /\ last_scan.dip_pct = Frac(-12, 100)
    /\ last_scan.equity = 32000
    /\ last_scan.current_price = 100
    /\ last_scan.current_position_value = Zero
    /\ last_scan.volatility_factor = FromInt(1)
    /\ last_scan.shares = FromInt(48)

C27_SizedWithIntradayMultiplier ==
    (pc = "execute" /\ last_exec.symbol # "") =>
        LET opp == last_exec.opp[1]
            v == opp.volatility_factor
            clamped == IF FLe(v, Zero) THEN FromInt(1)
                       ELSE IF FLt(v, Frac(1, 2)) THEN Frac(1, 2)
                       ELSE IF FGt(v, FromInt(2)) THEN FromInt(2) ELSE v
            scaled == FDiv(FMul(FMul(FMul(FromInt(account.equity), BASE_POSITION_PCT),
                                     FMul(FDiv(FAbs(opp.dip_pct), Frac(3, 100)),
                                          DIP_MULTIPLIER)),
                                opp.intraday_multiplier),
                           clamped)
            target_value == FMin(scaled, FMul(FromInt(account.equity), MAX_POSITION_PCT))
            gap == FMax(Zero, FSub(target_value, opp.current_position_value))
            shares == IF FLt(gap, FromInt(100)) THEN Zero
                      ELSE FDiv(gap, FromInt(opp.current_price))
        IN  /\ last_exec.reason # "error"
            /\ last_exec.reason = "too_small" <=> FLt(shares, Frac(1, 100))
            /\ last_exec.success =>
                  cycle_order_value =
                      FAdd(last_exec.committed_before,
                           FMul(shares, FromInt(opp.current_price)))

\* C28: a scanned symbol that shows a dip, passes the cooldown pre-check and
\* passes the admission gate is emitted as an opportunity, whether or not it
\* is volatility-flagged; a flagged symbol carries intraday multiplier 1.0 or
\* the configured boost, any other symbol 1.0.
C28_FlaggedDipEmitted ==
    (pc = "scan" /\ last_scan.symbol # "" /\ last_scan.data_dip # None
        /\ last_scan.symbol \notin COLLATERAL_POSITIONS) =>
        LET symbol == last_scan.symbol
            gate == should_buy(symbol, last_scan.data_dip, get_dip_threshold(symbol),
                               FromInt(Get(position_map, symbol, 0)),
                               FMul(FromInt(account.equity), MAX_POSITION_PCT),
                               Get(last_trade_times, symbol, NoTime), COOLDOWN_HOURS,
                               MIN_ABSOLUTE_DIP, now)
            pre_check == now - Get(recent_trades, symbol, 0) >= COOLDOWN_HOURS * 3600
            n == Len(qualifying_opportunities)
        IN  (pre_check /\ gate.ok) =>
                /\ last_scan.reason = "qualifies"
                /\ n > 0
                /\ qualifying_opportunities[n].symbol = symbol
                /\ qualifying_opportunities[n].intraday_multiplier \in
                       (IF symbol \in VOLATILE_TICKERS
                        THEN {FromInt(1), INTRADAY_MULTIPLIER} ELSE {FromInt(1)})

\* C29: the list of capital-exhausted opportunities is empty when the
\* execution loop starts, and an iteration of the loop adds its opportunity to
\* the list if and only if the opportunity was denied with reason "capital"
\* after at least one opportunity was executed earlier in the cycle; denials
\* "too_small" and "error", and a "capital" denial before any execution, add
\* nothing.
C29_ReportedIffCapitalAfterSuccess ==
    [][ /\ (pc = "scan" /\ pc' = "execute") => skipped_capital' = <<>>
        /\ (pc = "execute" /\ exec_idx' = exec_idx + 1) =>
              IF /\ ~last_exec'.success
                 /\ last_exec'.reason = "capital"
                 /\ executed_count > 0
              THEN skipped_capital' =
                       Append(skipped_capital, qualifying_opportunities[exec_idx])
              ELSE skipped_capital' = skipped_capital ]_vars

\* In the second cycle both opportunities were denied with reason "error" and
\* the list is still empty.
C29_ErrorsNotReported ==
    /\ pc = "execute"
    /\ cycle_count = 2
    /\ Len(qualifying_opportunities) = 2
    /\ exec_idx = 3
    /\ last_exec.reason = "error"
    /\ ~last_exec.success
    /\ skipped_capital = <<>>

C31_MissedScanOnTenthCycles ==
    [][ (pc = "account" /\ cycle_path' = "brake") =>
            /\ brake_cycle_count' = brake_cycle_count + 1
            /\ missed_scan' <=> brake_cycle_count' \in {10, 20, 30}
            /\ pending_orders' = pending_orders
            /\ last_trade_times' = last_trade_times
            /\ recent_trades' = recent_trades
            /\ cycle_order_value' = cycle_order_value ]_vars

\* The thirtieth consecutive brake cycle has scanned.
C31_ThirtiethBrakeCycleScans ==
    /\ cycle_path = "brake"
    /\ brake_cycle_count = 30
    /\ missed_scan

\* C32: the prioritization keeps every scan result, puts them in
\* non-increasing order of score, and leaves results of equal score in the
\* order in which the scan appended them, which is watchlist order.
C32_EqualScoresKeepWatchlistOrder ==
    last_scan.symbol = "SORT" =>
        LET before == last_scan.appended
            after == qualifying_opportunities
            place(sym) == CHOOSE k \in 1..Len(SYMBOLS) : SYMBOLS[k] = sym
        IN  /\ Len(after) = Len(before)
            /\ \A i \in 1..Len(before) : \E j \in 1..Len(after) : after[j] = before[i]
            /\ \A i \in 1..Len(after) : \A j \in 1..Len(after) :
                  i < j =>
                      /\ FGe(FDiv(FAbs(after[i].dip_pct), after[i].threshold),
                             FDiv(FAbs(after[j].dip_pct), after[j].threshold))
                      /\ FDiv(FAbs(after[i].dip_pct), after[i].threshold) =
                         FDiv(FAbs(after[j].dip_pct), after[j].threshold)
                         => place(after[i].symbol) < place(after[j].symbol)

\* MSFT scores highest and moves to the front; NVDA and IBIT tie at 2 and
\* stay in watchlist order behind it.
C32_TieBehindLeader ==
    /\ last_scan.symbol = "SORT"
    /\ Len(qualifying_opportunities) = 3
    /\ qualifying_opportunities[1].symbol = "MSFT"
    /\ qualifying_opportunities[2].symbol = "NVDA"
    /\ qualifying_opportunities[3].symbol = "IBIT"
    /\ qualifying_opportunities[2].dip_pct = Frac(-10, 100)
    /\ qualifying_opportunities[3].dip_pct = Frac(-16, 100)

\* C33: the configuration is validated before the loop starts: when a
\* credential is empty, the DEFAULT threshold is missing, a threshold is not
\* in (0, 0.5], or MAX_POSITION_PCT is not above BASE_POSITION_PCT, the
\* process has exited with status 1 and no cycle has begun.
C33_InvalidConfigExitsBeforeLoop ==
    last_scan.symbol = "CONFIG" =>
        LET cfg == last_scan.config
            invalid ==
                \/ cfg.ALPACA_KEY = ""
                \/ cfg.ALPACA_SECRET = ""
                \/ "DEFAULT" \notin DOMAIN cfg.DIP_THRESHOLDS
                \/ \E s \in DOMAIN cfg.DIP_THRESHOLDS :
                      ~(FGt(cfg.DIP_THRESHOLDS[s], Zero)
                        /\ FLe(cfg.DIP_THRESHOLDS[s], Frac(1, 2)))
                \/ FLe(cfg.MAX_POSITION_PCT, cfg.BASE_POSITION_PCT)
        IN  invalid =>
                /\ pc = "exited"
                /\ exit_status = 1
                /\ cycle_count = 0
                /\ cycle_path = "none"
                /\ now = ProcessStart

\* Credentials are set and the sizes in order, but one symbol's threshold
\* is 51%: the process has exited.
C33_ThresholdAboveHalfRejected ==
    /\ last_scan.symbol = "CONFIG"
    /\ last_scan.config.ALPACA_KEY # ""
    /\ last_scan.config.ALPACA_SECRET # ""
    /\ last_scan.clients_ok
    /\ last_scan.config.DIP_THRESHOLDS = [DEFAULT |-> Frac(51, 100), NVDA |-> Frac(5, 100)]
    /\ FGt(last_scan.config.MAX_POSITION_PCT, last_scan.config.BASE_POSITION_PCT)
    /\ pc = "exited"
    /\ exit_status = 1

C36_YoungOpenOrderStaysTracked ==
    (last_manage.called /\ last_manage.listed) =>
        \A id \in DOMAIN last_manage.before :
            (/\ id \in last_manage.open
             /\ last_manage.at - last_manage.before[id].submitted
                    <= ORDER_TIMEOUT_MINUTES * 60)
            => /\ id \in DOMAIN last_manage.after
               /\ last_manage.after[id] = last_manage.before[id]

\* C38: last_trade_times and _recent_trades always hold the same symbols; a
\* step in which the brokerage accepts an order stamps the order's symbol in
\* both maps with the time of the call and adds exactly one pending record,
\* for that symbol; any other step leaves both maps unchanged and adds no
\* pending record.
C38_CooldownMapsWrittenWithOrder ==
    [][ /\ DOMAIN last_trade_times' = DOMAIN recent_trades'
        /\ IF Len(submit_log') = Len(submit_log) + 1
           THEN LET order == submit_log'[Len(submit_log')]
                IN  /\ last_trade_times' = Put(last_trade_times, order.symbol, now')
                    /\ recent_trades' = Put(recent_trades, order.symbol, now')
                    /\ \E id \in DOMAIN pending_orders' \ DOMAIN pending_orders :
                          /\ DOMAIN pending_orders' = DOMAIN pending_orders \cup {id}
                          /\ pending_orders'[id].symbol = order.symbol
                          /\ pending_orders'[id].submitted = now'
           ELSE /\ submit_log' = submit_log
                /\ last_trade_times' = last_trade_times
                /\ recent_trades' = recent_trades
                /\ DOMAIN pending_orders' \subseteq DOMAIN pending_orders ]_vars

\* NVDA qualified and _place_order was called, but the submission failed:
\* nothing is stamped and nothing is tracked.
C38_FailedSubmissionLeavesNoStamp ==
    /\ cycle_count = 0
    /\ last_scan.symbol = "NVDA"
    /\ last_scan.reason = "qualifies"
    /\ submit_log = <<>>
    /\ last_trade_times = EmptyDict
    /\ recent_trades = EmptyDict
    /\ pending_orders = EmptyDict

\* C39: whatever the dip and the non-negative base cooldown, the effective
\* cooldown of the admission gate is at most the base cooldown: the gate
\* denies for cooldown only when the last trade is younger than the base
\* cooldown.
C39_EffectiveCooldownWithinBase ==
    last_scan.symbol = "TEST" =>
        /\ effective_cooldown(last_scan.data_dip, last_scan.cooldown_hours)
               <= last_scan.cooldown_hours
        /\ last_scan.reason = "cooldown" =>
               last_scan.t - last_scan.last_trade_time < last_scan.cooldown_hours * 3600

\* C40: when the open-order listing fails, manage_pending_orders leaves the
\* pending map as it was and requests no cancellation, and the cycle ends
\* as a completed cycle: the failure counter is zero, not incremented, the
\* loop sleeps out the scan interval and goes on to the next cycle.
C40_FailedListingChangesNothing ==
    [][ (last_manage'.called /\ ~last_manage.called /\ ~last_manage'.listed) =>
            /\ pending_orders' = pending_orders
            /\ last_manage'.after = last_manage'.before
            /\ last_manage'.cancels = {}
            /\ cancel_log' = cancel_log
            /\ retry_count' = 0
            /\ pc' = "start"
            /\ run_result' = "running"
            /\ last_sleep' <= SCAN_INTERVAL_SEC
            /\ now' - now >= SCAN_INTERVAL_SEC ]_vars

\* The listing failed while an order was tracked: the order is still tracked
\* and the loop is at the top of its next iteration.
C40_TrackedOrderSurvivesFailedListing ==
    /\ pc = "start"
    /\ last_manage.called
    /\ ~last_manage.listed
    /\ last_manage.before # EmptyDict
    /\ pending_orders = last_manage.before
    /\ retry_count = 0
====
